---- MODULE Spec2Model ----
(***************************************************************************)
(* A model of nbodykit's MPIPool (nbodykit/utils/parallel.py): the master  *)
(* rank dispatching tasks to worker groups, each worker group being a      *)
(* sub-communicator of one or more ranks fronted by its sub-rank 0.        *)
(*                                                                         *)
(* Communication model.  comm.send is a buffered (eager) standard-mode     *)
(* send: it returns without waiting for the receiver, and messages between *)
(* one pair of ranks are received in the order they were sent (MPI's       *)
(* non-overtaking rule).  subcomm.bcast returns on the root as soon as the *)
(* value is handed over, and on the other members once the root's value    *)
(* has arrived.  subcomm.Barrier returns only once every member of the     *)
(* sub-communicator has entered a Barrier.                                 *)
(*                                                                         *)
(* The second part models DataSource / DataStream / DataCache              *)
(* (nbodykit/extensionpoints.py) as seen by the process with comm.rank 0:  *)
(* the cache kept in a WeakValueDictionary, the streams that hold it, and  *)
(* the generator that DataStream.read returns.  CPython frees an object,   *)
(* and clears the weak dictionary entry, as soon as the last reference to  *)
(* it is deleted.                                                          *)
(*                                                                         *)
(* The third part models DataSource._cache_data on every process of        *)
(* self.comm.  comm.bcast is as above: the root hands its value over and   *)
(* goes on, the others wait for the value of the root's matching call.     *)
(* ScatterArray (nbodykit.distributedarray) is taken by its contract:      *)
(* called by every process, it gives each its contiguous share of the      *)
(* root's array, the shares balanced evenly.  An exception that leaves     *)
(* _cache_data on one process ends that process and no other.              *)
(***************************************************************************)
EXTENDS Integers, Sequences, FiniteSets, TLC

\* ---------------------------------------------------------------- bounds
MaxSize  == 4          \* largest communicator size (ranks 0..MaxSize-1)
MaxCpus  == 2          \* largest cpus_per_worker
MaxTasks == 2          \* longest task list
MaxWorkers == 2        \* largest number of worker groups
MaxNRanks == 6         \* largest communicator size a pool is constructed on
MaxN == 3              \* largest cpus_per_worker a pool is constructed with
MaxNegN == 1           \* a pool is constructed with cpus_per_worker down to -MaxNegN
MaxStreams == 3        \* streams and pins constructed on one DataSource
MaxReaders == 2        \* streams constructed on a DataSource that is read
MaxRows == 2           \* rows of the data source, over all processes
MaxProcs == 2          \* processes of the communicator of a DataSource
MaxBuilds == 2         \* calls of _cache_data on each process
MaxOps == 4            \* operations every process performs on its DataSource
MaxBatches == 2        \* batches a parallel_read yields


\* ------------------------------------------------------------- constants
None == <<>>           \* Python's None (message without payload)
NoTag == -1            \* tag = -1 at the top of the worker loop

\* enum('READY', 'DONE', 'EXIT', 'START')
tags == [READY |-> 0, DONE |-> 1, EXIT |-> 2, START |-> 3]

VARIABLES
    size,            \* self.size: number of ranks of the communicator
    cpus_per_worker, \* self.cpus_per_worker
    use_all_cpus,    \* self.use_all_cpus
    tasks,           \* the argument of compute()
    workers,         \* self.workers: the number of worker groups
    valid_worker,    \* per rank: self._valid_worker
    subcomm,         \* per rank: the members of self.subcomm
    pc,              \* per rank: its position in compute() / wait()
    args,            \* per rank: local variable args of wait()
    tag,             \* per rank: local variable tag of wait()
    result,          \* per rank: local variable result of wait()
    inbox,           \* per rank r: messages sent by r to rank 0, not yet received
    outbox,          \* per rank r: messages sent by rank 0 to r, not yet received
    bcastq,          \* per rank r: values broadcast on r's subcomm, not yet taken by r
    task_index,      \* master: local variable task_index of compute()
    closed_workers,  \* master: local variable closed_workers of compute()
    results,         \* master: local variable results of compute()
    returned,        \* master: the value compute() returned
    sent,            \* history: per rank r, the messages r sent to rank 0, in order
    master_sent,     \* history: per rank r, the messages rank 0 sent to r, in order
    seen,            \* history: per rank, the <<args, tag>> it held after the
                     \* broadcasts of each iteration, in order
    cpc,             \* the position of the ranks in __init__ / _create_subcomm
    loop_i,          \* _create_subcomm: the iterations of its loop so far (i + 1)
    chain_ranks,     \* _create_subcomm: local variable chain_ranks
    color,           \* _create_subcomm: per rank, local variable color
    total_ranks,     \* _create_subcomm: local variable total_ranks
    yielded,         \* history: the `ranks` split_ranks has yielded, in order
    error,           \* the exception that ended __init__, "" when none
    warned,          \* whether rank 0 logged the "will do no work" warning
    datasource,      \* the DataSource plugin: what readall / parallel_read do
    weakcache,       \* self._weakcache['cache']: index into heap, 0 when absent
    heap,            \* the DataCache objects built so far, in order
    ds_size,         \* self._size, None while unset
    readall_calls,   \* history: the number of calls of readall
    lone_opens,      \* history: the streams constructed while no stream was open
    streams,         \* per DataStream: its attributes
    gen,             \* the generator returned by DataStream.read
    size_call,       \* history: the last use of the property DataSource.size
    build,           \* per process of self.comm: its position in _cache_data,
                     \* its locals, its self._size and the values broadcast or
                     \* scattered to it that it has not taken yet
    shutdown,        \* the ranks on which MPIPool.close() has run, and those of
                     \* them that called self.subcomm.Free()
    sread,           \* per process of self.comm: its position in a streaming
                     \* read of its stream, the stream's nread, and as history
                     \* its calls of comm.allreduce
    group            \* the operations every process of self.comm performs on
                     \* its DataSource, and per process how far it has come

vars == <<size, cpus_per_worker, use_all_cpus, tasks, workers, valid_worker,
          subcomm, pc, args, tag, result,
          inbox, outbox, bcastq, task_index, closed_workers, results,
          returned, sent, master_sent, seen,
          cpc, loop_i, chain_ranks, color, total_ranks, yielded, error, warned,
          datasource, weakcache, heap, ds_size, readall_calls,
          lone_opens, streams, gen, size_call, build, shutdown, sread, group>>

\* the shutdown of a pool, and the processes of the communicator of a
\* DataSource in a streaming read or in their operations on it
group_vars == <<shutdown, sread, group>>

\* the DataSource and its streams as one process sees them, and its cache build
source_vars == <<datasource, weakcache, heap, ds_size, readall_calls,
                 lone_opens, streams, gen, size_call, build>>

\* the DataSource and its streams
stream_vars == <<source_vars, group_vars>>

\* the locals and the outcome of the construction
ctor_vars == <<cpc, loop_i, chain_ranks, color, total_ranks, yielded, error, warned>>

\* what compute() and wait() leave alone: the pool as constructed, and the tasks
config == <<size, cpus_per_worker, use_all_cpus, tasks, workers, valid_worker, subcomm,
            ctor_vars, stream_vars>>

\* what the construction leaves alone: the state of compute() and wait()
run_vars == <<tasks, pc, args, tag, result, inbox, outbox, bcastq, task_index,
              closed_workers, results, returned, sent, master_sent, seen, stream_vars>>

\* the pool: its construction and its run
mpipool_vars == <<size, cpus_per_worker, use_all_cpus, tasks, workers, valid_worker,
                  subcomm, pc, args, tag, result,
                  inbox, outbox, bcastq, task_index, closed_workers, results,
                  returned, sent, master_sent, seen, ctor_vars>>

\* what the DataSource and its streams on one process leave alone: the pool
\* and the other processes
pool_vars == <<mpipool_vars, group_vars>>

\* what the streams of one process leave alone: the pool, the uses of the
\* property size and the processes in _cache_data
other_vars == <<pool_vars, size_call, build>>

\* --------------------------------------------------------------- helpers
Min(a, b) == IF a < b THEN a ELSE b

Range(s) == {s[i] : i \in 1..Len(s)}

\* mutant of Slice: the available ranks start at 0, the master is not removed
Slice_from_zero(start, stop, total) ==
    LET hi == Min(stop, total)
    IN  IF hi > start THEN [k \in 1..(hi - start) |-> start + k - 1] ELSE <<>>

\* available[start:stop] for available = list(range(1, N_ranks))
Slice(start, stop, total) ==
    LET hi == Min(stop, total)
    IN  IF hi > start THEN [k \in 1..(hi - start) |-> start + k] ELSE <<>>

\* the loop of split_ranks from iteration i on, as the sequence of yielded `ranks`
RECURSIVE split_loop(_, _, _, _, _, _, _)
split_loop(i, start, stop, extra_ranks, total, N, include_all) ==
    IF i >= total \div N THEN <<>>
    ELSE LET ranks == Slice(start, stop, total)
             bump  == include_all /\ extra_ranks # 0
         IN  <<ranks>> \o split_loop(i + 1, stop,
                                     IF bump THEN stop + N + 1 ELSE stop + N,
                                     IF bump THEN extra_ranks - 1 ELSE extra_ranks,
                                     total, N, include_all)

\* mutant of split_ranks: all N_ranks ranks are counted as available
split_ranks_with_master(N_ranks, N, include_all) ==
    split_loop(0, 0, N, N_ranks % N, N_ranks, N, include_all)

\* split_ranks(N_ranks, N, include_all): element i+1 is the `ranks` yielded with i
split_ranks(N_ranks, N, include_all) ==
    LET total == N_ranks - 1
    IN  split_loop(0, 0, N, total % N, total, N, include_all)

Ranks == 0..(size - 1)

\* mutant of create_color: color = i instead of i+1
create_color_zero_based(gs, r) ==
    LET hits == {i \in 1..Len(gs) : r \in Range(gs[i])}
    IN  IF hits = {} THEN 0 ELSE (CHOOSE i \in hits : \A j \in hits : j <= i) - 1

\* color of rank r after the loop of _create_subcomm over the groups gs:
\* i+1 for the last group that holds r, 0 when there is none
create_color(gs, r) ==
    LET hits == {i \in 1..Len(gs) : r \in Range(gs[i])}
    IN  IF hits = {} THEN 0 ELSE CHOOSE i \in hits : \A j \in hits : j <= i

\* self.comm.Split(color, 0) seen from rank r: the ranks of the same color
create_subcomm(n, gs, r) == {q \in 0..(n - 1) : create_color(gs, q) = create_color(gs, r)}

\* self.is_worker()
is_worker(r) == valid_worker[r]

\* self.is_master()
is_master(r) == r = 0

\* mutant of subcomm_rank: the members ordered by descending rank
subcomm_rank_descending(r) == Cardinality({q \in subcomm[r] : q > r})

\* self.subcomm.rank: with key 0 everywhere, members are ordered by their rank
subcomm_rank(r) == Cardinality({q \in subcomm[r] : q < r})

\* self.function(*args) on rank r: the value is labelled with the rank that
\* computed it and the arguments it was called with
function(r, a) == <<r>> \o a

\* sorted(results, key=lambda r: r[0]): stable insertion by the first component
RECURSIVE insert_sorted(_, _)
insert_sorted(s, r) ==
    IF s = <<>> THEN <<r>>
    ELSE IF s[Len(s)][1] <= r[1] THEN Append(s, r)
    ELSE Append(insert_sorted(SubSeq(s, 1, Len(s) - 1), r), s[Len(s)])

RECURSIVE sorted(_)
sorted(s) ==
    IF s = <<>> THEN <<>>
    ELSE insert_sorted(sorted(SubSeq(s, 1, Len(s) - 1)), s[Len(s)])

\* mutant of return_value: the results in the order they arrived
return_value_unsorted(rs) == [i \in 1..Len(rs) |-> rs[i][2]]

\* [r[1] for r in sorted(results, key=lambda r: r[0])]
return_value(rs) == LET s == sorted(rs) IN [i \in 1..Len(s) |-> s[i][2]]

Msg(t, d) == [tag |-> t, data |-> d]

\* total_ranks after the loop of _create_subcomm over the groups gs
RECURSIVE sum_len(_)
sum_len(gs) == IF gs = <<>> THEN 0 ELSE Len(Head(gs)) + sum_len(Tail(gs))

\* `total % N` in split_ranks raises ZeroDivisionError
split_raises(N) == N = 0

\* what the generator split_ranks yields; range(total//N) is empty for N < 0
split_yields(N_ranks, N, include_all) ==
    IF N < 0 THEN <<>> ELSE split_ranks(N_ranks, N, include_all)

\* mutant of too_few_ranks: the comparison is off by one
too_few_ranks_off_by_one(n, w) == n <= w + 1

\* `if self.size <= self.workers` in _create_subcomm
too_few_ranks(n, w) == n <= w

\* ------------------------------------------------- the data source
\* a numpy array with the given values, told apart from None also when empty
Array(values) == <<"array", values>>

\* the columns readall returns (list(data.keys())) or parallel_read provides
ColumnLists == {<<"X">>, <<"X", "Y">>}

\* the `columns` a read is called with
Requests == {<<"X">>, <<"W">>, <<"W", "X">>, <<"X", "Y">>}

\* the `defaults` a stream is opened with: a dictionary column -> value
DefaultColumns == {"X", "W"}
DefaultValue(c) == <<"default", c>>
DefaultChoices == {[c \in D |-> DefaultValue(c)] : D \in {{}, DefaultColumns}}

\* the local part of column c: n rows, row k of batch b (b = 0: of readall)
LocalRows(c, b, n) == Array([k \in 1..n |-> <<c, b, k>>])

\* the plugins: readall returns its columns, or raises NotImplementedError (and
\* parallel_read yields nbatches batches of the columns), or raises another
\* exception.  Of the MaxRows rows, local_rows are on this process and
\* remote_rows on the other processes of the communicator.
Sources ==
    {[kind |-> k, columns |-> cl, local_rows |-> l, remote_rows |-> r, nbatches |-> n] :
        k \in {"ok", "NotImplementedError", "Exception"}, cl \in ColumnLists,
        l \in 0..MaxRows, r \in 0..MaxRows, n \in 0..MaxBatches}

\* one representative of the plugins that behave alike; this process holds
\* none, one or all of the rows
IsSource(src) ==
    /\ src \in Sources
    /\ src.local_rows + src.remote_rows = MaxRows
    /\ src.local_rows \in {0, 1, MaxRows}
    /\ src.kind = "ok" => src.nbatches = 0
    /\ src.kind = "NotImplementedError" => src.nbatches = MaxBatches
    /\ src.kind = "Exception" =>
          (src.nbatches = 0 /\ src.local_rows = 0 /\ src.columns = <<"X">>)

\* DataCache(columns, data, local_size, total_size): data[i] is set as the
\* attribute named columns[i]
DataCache(columns, data, local_size, total_size) ==
    [columns |-> columns,
     attrs |-> [c \in Range(columns) |->
                   data[CHOOSE i \in 1..Len(columns) :
                            columns[i] = c /\ \A j \in (i + 1)..Len(columns) : columns[j] # c]],
     local_size |-> local_size,
     total_size |-> total_size]

\* DataCache.empty
empty(cache) == Len(cache.columns) = 0

\* DataSource._cache_data: what it returns, raises and does to self._size
cache_data(src, old_size) ==
    IF src.kind = "Exception"
    THEN [error |-> "Exception", cache |-> None, size |-> old_size]
    ELSE IF src.kind = "NotImplementedError"
    THEN [error |-> "", cache |-> DataCache(<<>>, <<>>, 0, 0), size |-> old_size]
    ELSE LET total == src.local_rows + src.remote_rows
             cache == [i \in 1..Len(src.columns) |->
                          LocalRows(src.columns[i], 0, src.local_rows)]
         IN  IF old_size # None /\ old_size # <<total>>
             THEN [error |-> "ValueError", cache |-> None, size |-> old_size]
             ELSE [error |-> "",
                   cache |-> DataCache(src.columns, cache, src.local_rows, total),
                   size |-> <<total>>]

\* the cache objects some open stream refers to
Referenced(ss) == {ss[t].cacheref : t \in {u \in DOMAIN ss : ss[u].status = "open"}}

\* mutant of weak_entry: the dictionary keeps its value alive
weak_entry_strong(wk, live) == wk

\* mutant of weak_entry: the entry is dropped whenever a stream is closed
weak_entry_dropped(wk, live) == 0

\* the entry of the WeakValueDictionary: gone once no reference to its value is left
weak_entry(wk, live) == IF wk \in live THEN wk ELSE 0

\* numpy.squeeze(as_strided(val, (size, val.size), ...)) for a scalar val
squeeze_default(val, sz) ==
    IF sz = 1 THEN <<"scalar", val>> ELSE Array([k \in 1..sz |-> val])

\* mutant of blend_data: a default is preferred to the data that was read
blend_data_default_first(columns, data, valid_columns, defaults, sz) ==
    LET bad == {i \in 1..Len(columns) : columns[i] \notin valid_columns}
        nodefault == {i \in 1..Len(columns) :
                         data[i] = None /\ columns[i] \notin DOMAIN defaults}
        first == CHOOSE i \in bad \cup nodefault : \A j \in bad \cup nodefault : i <= j
    IN  IF bad \cup nodefault = {}
        THEN [error |-> "", column |-> "",
              newdata |-> [i \in 1..Len(columns) |->
                              IF columns[i] \in DOMAIN defaults
                              THEN squeeze_default(defaults[columns[i]], sz)
                              ELSE data[i]]]
        ELSE [error |-> IF first \in bad THEN "MissingColumn" ELSE "RuntimeError",
              column |-> columns[first], newdata |-> <<>>]

\* DataStream._blend_data: the list it returns, or the exception it raises at
\* the first column that is not valid or has neither data nor default
blend_data(columns, data, valid_columns, defaults, sz) ==
    LET bad == {i \in 1..Len(columns) : columns[i] \notin valid_columns}
        nodefault == {i \in 1..Len(columns) :
                         data[i] = None /\ columns[i] \notin DOMAIN defaults}
        first == CHOOSE i \in bad \cup nodefault : \A j \in bad \cup nodefault : i <= j
    IN  IF bad \cup nodefault = {}
        THEN [error |-> "", column |-> "",
              newdata |-> [i \in 1..Len(columns) |->
                              IF data[i] # None THEN data[i]
                              ELSE squeeze_default(defaults[columns[i]], sz)]]
        ELSE [error |-> IF first \in bad THEN "MissingColumn" ELSE "RuntimeError",
              column |-> columns[first], newdata |-> <<>>]

\* defaults={}
NoDefaults == [c \in {} |-> DefaultValue(c)]

\* the exception types a `with` block is left with; "" is None
ExcTypes == {"", "ValueError"}

\* the stream is not the context of a `with` block.  Of a block: whether the
\* caller is inside it or has left it, and as history the exc_type __exit__
\* was called with and whether the stream was closed already at that call
OutOfScope == [status |-> "out", exc_type |-> "", was_closed |-> FALSE]

\* a DataStream that was not constructed yet
NewStream == [status |-> "new", cacheref |-> 0, defaults |-> NoDefaults, nread |-> 0,
              pin |-> FALSE, scope |-> OutOfScope]

\* no generator.  Of a generator: the stream and columns of its read, the branch
\* of read it took, what it yielded and raised, and as history the cache it
\* read, the size and the valid columns it passed to _blend_data, the batches
\* it took from parallel_read, the calls of parallel_read it made, and where
\* the caller was, relative to the `with` block of the stream, when it called
\* read and when it last advanced the generator
NoGen == [status |-> "none", stream |-> 0, columns |-> <<>>, mode |-> "",
          batches |-> <<>>, size |-> 0, error |-> "", column |-> "", taken |-> 0,
          cacheref |-> 0, parallel_read_calls |-> 0, valid_columns |-> {},
          called_in |-> "", advanced_in |-> ""]

\* the property size was not used.  Of a use: whether it set or got the size,
\* the value assigned or returned (as self._size is held: None or <<value>>)
\* and the exception raised
NoCall == [op |-> "", val |-> None, error |-> ""]

\* mutant of size_setter: the value is stored whatever was stored before
size_setter_overwrites(stored, val) == [size |-> <<val>>, error |-> ""]

\* the setter of DataSource.size: self._size after `self.size = val`, and the
\* exception it raises
size_setter(stored, val) ==
    IF stored = None THEN [size |-> <<val>>, error |-> ""]
    ELSE IF <<val>> # stored THEN [size |-> stored, error |-> "ValueError"]
    ELSE [size |-> stored, error |-> ""]

\* the getter of DataSource.size: the value it returns, and the exception it
\* raises
size_getter(stored) ==
    IF stored = None THEN [val |-> None, error |-> "AttributeError"]
    ELSE [val |-> stored, error |-> ""]

\* no pool was closed, and no group of processes reads or uses a DataSource
NoGroup ==
    /\ shutdown = [closed |-> {}, freed |-> {}]
    /\ sread = <<>>
    /\ group = <<>>

\* no DataSource is in use
NoDataSource ==
    /\ datasource = None
    /\ weakcache = 0
    /\ heap = <<>>
    /\ ds_size = None
    /\ readall_calls = 0
    /\ lone_opens = 0
    /\ streams = <<>>
    /\ size_call = NoCall
    /\ build = <<>>
    /\ gen = NoGen

\* ------------------------------------------------------------------ Init
\* the values of include_all to tell apart: split_ranks reads the flag only
\* together with a non-zero extra_ranks (`if include_all and extra_ranks`)
include_all_choices(N_ranks, N) ==
    IF (N_ranks - 1) % N = 0 THEN {FALSE} ELSE BOOLEAN

\* the pools whose construction succeeds: at least two ranks, at least one group
\* the task lists: the values are opaque to the pool, neighbours differ
TaskValue(i) == IF i % 2 = 1 THEN "a" ELSE "b"
TaskLists == {[i \in 1..n |-> TaskValue(i)] : n \in 0..MaxTasks}

Init ==
    /\ size \in 2..MaxSize
    /\ cpus_per_worker \in 1..MaxCpus
    /\ (size - 1) \div cpus_per_worker >= 1
    /\ use_all_cpus \in include_all_choices(size, cpus_per_worker)
    /\ tasks \in TaskLists
    /\ LET gs == split_ranks(size, cpus_per_worker, use_all_cpus)
       IN  /\ Len(gs) <= MaxWorkers
           /\ workers = Len(gs)
           /\ valid_worker = [r \in Ranks |-> create_color(gs, r) > 0]
           /\ subcomm = [r \in Ranks |-> create_subcomm(size, gs, r)]
           /\ cpc = "done"
           /\ loop_i = Len(gs)
           /\ chain_ranks = [i \in 1..Len(gs) |-> gs[i][1]]
           /\ color = [r \in Ranks |-> create_color(gs, r)]
           /\ total_ranks = sum_len(gs)
           /\ yielded = gs
           /\ error = ""
           /\ warned = ((size - 1) - sum_len(gs) # 0)
    /\ pc = [r \in Ranks |-> IF r = 0 THEN "dispatch" ELSE "wait"]
    /\ args = [r \in Ranks |-> None]
    /\ tag = [r \in Ranks |-> NoTag]
    /\ result = [r \in Ranks |-> None]
    /\ inbox = [r \in Ranks |-> <<>>]
    /\ outbox = [r \in Ranks |-> <<>>]
    /\ bcastq = [r \in Ranks |-> <<>>]
    /\ task_index = 0
    /\ closed_workers = 0
    /\ results = <<>>
    /\ returned = None
    /\ sent = [r \in Ranks |-> <<>>]
    /\ master_sent = [r \in Ranks |-> <<>>]
    /\ seen = [r \in Ranks |-> <<>>]
    /\ NoDataSource
    /\ NoGroup

\* --------------------------------------------------------------- workers
\* mutant of WaitEnter: the check of is_worker() is missing
WaitEnter_unchecked(p) ==
    /\ ~is_master(p)
    /\ pc[p] = "wait"
    /\ pc' = [pc EXCEPT ![p] = "loop"]
    /\ UNCHANGED <<config, args, tag, result, inbox, outbox, bcastq, task_index,
                   closed_workers, results, returned, sent, master_sent, seen>>

\* wait(), up to the loop: ranks that are no valid worker return at once
WaitEnter(p) ==
    /\ ~is_master(p)
    /\ pc[p] = "wait"
    /\ pc' = [pc EXCEPT ![p] = IF is_worker(p) THEN "loop" ELSE "returned"]
    /\ UNCHANGED <<config, args, tag, result, inbox, outbox, bcastq, task_index,
                   closed_workers, results, returned, sent, master_sent, seen>>

\* mutant of SendReady: READY is sent twice
SendReady_twice(p) ==
    /\ pc[p] = "loop"
    /\ subcomm_rank(p) = 0
    /\ args' = [args EXCEPT ![p] = None]
    /\ tag' = [tag EXCEPT ![p] = NoTag]
    /\ inbox' = [inbox EXCEPT ![p] = @ \o <<Msg(tags.READY, None), Msg(tags.READY, None)>>]
    /\ sent' = [sent EXCEPT ![p] = @ \o <<Msg(tags.READY, None), Msg(tags.READY, None)>>]
    /\ pc' = [pc EXCEPT ![p] = "recv"]
    /\ UNCHANGED <<config, result, outbox, bcastq, task_index, closed_workers,
                   results, returned, master_sent, seen>>

\* top of the loop on sub-rank 0: comm.send(None, dest=0, tag=READY)
SendReady(p) ==
    /\ pc[p] = "loop"
    /\ subcomm_rank(p) = 0
    /\ args' = [args EXCEPT ![p] = None]
    /\ tag' = [tag EXCEPT ![p] = NoTag]
    /\ inbox' = [inbox EXCEPT ![p] = Append(@, Msg(tags.READY, None))]
    /\ sent' = [sent EXCEPT ![p] = Append(@, Msg(tags.READY, None))]
    /\ pc' = [pc EXCEPT ![p] = "recv"]
    /\ UNCHANGED <<config, result, outbox, bcastq, task_index, closed_workers,
                   results, returned, master_sent, seen>>

\* the branch on tag after the two broadcasts
branch(t) ==
    IF t = tags.START THEN "exec"
    ELSE IF t = tags.EXIT THEN "barrier_exit"
    ELSE "loop"

\* on sub-rank 0: args = comm.recv(source=0, tag=ANY_TAG); tag = status.Get_tag(),
\* then subcomm.bcast(args); subcomm.bcast(tag) as the root, which does not wait
\* for the other members
RecvTask(p) ==
    /\ pc[p] = "recv"
    /\ outbox[p] # <<>>
    /\ args' = [args EXCEPT ![p] = Head(outbox[p]).data]
    /\ tag' = [tag EXCEPT ![p] = Head(outbox[p]).tag]
    /\ outbox' = [outbox EXCEPT ![p] = Tail(@)]
    /\ bcastq' = [q \in Ranks |->
                    IF q \in subcomm[p] /\ q # p
                    THEN Append(bcastq[q], <<args'[p], tag'[p]>>)
                    ELSE bcastq[q]]
    /\ seen' = [seen EXCEPT ![p] = Append(@, <<args'[p], tag'[p]>>)]
    /\ pc' = [pc EXCEPT ![p] = branch(tag'[p])]
    /\ UNCHANGED <<config, result, inbox, task_index, closed_workers,
                   results, returned, sent, master_sent>>

\* mutant of BcastRecv: only the tag is broadcast, args stays as it was
BcastRecv_tag_only(p) ==
    /\ pc[p] = "loop"
    /\ subcomm_rank(p) # 0
    /\ bcastq[p] # <<>>
    /\ tag' = [tag EXCEPT ![p] = Head(bcastq[p])[2]]
    /\ bcastq' = [bcastq EXCEPT ![p] = Tail(@)]
    /\ seen' = [seen EXCEPT ![p] = Append(@, <<args[p], tag'[p]>>)]
    /\ pc' = [pc EXCEPT ![p] = branch(tag'[p])]
    /\ UNCHANGED <<config, args, result, inbox, outbox, task_index, closed_workers,
                   results, returned, sent, master_sent>>

\* top of the loop on the other members: they take the root's args and tag
BcastRecv(p) ==
    /\ pc[p] = "loop"
    /\ subcomm_rank(p) # 0
    /\ bcastq[p] # <<>>
    /\ args' = [args EXCEPT ![p] = Head(bcastq[p])[1]]
    /\ tag' = [tag EXCEPT ![p] = Head(bcastq[p])[2]]
    /\ bcastq' = [bcastq EXCEPT ![p] = Tail(@)]
    /\ seen' = [seen EXCEPT ![p] = Append(@, <<args'[p], tag'[p]>>)]
    /\ pc' = [pc EXCEPT ![p] = branch(tag'[p])]
    /\ UNCHANGED <<config, result, inbox, outbox, task_index, closed_workers,
                   results, returned, sent, master_sent>>

\* result = self.function(*args), the call returns
Exec(p) ==
    /\ pc[p] = "exec"
    /\ result' = [result EXCEPT ![p] = function(p, args[p])]
    /\ pc' = [pc EXCEPT ![p] = "barrier_task"]
    /\ UNCHANGED <<config, args, tag, inbox, outbox, bcastq, task_index,
                   closed_workers, results, returned, sent, master_sent, seen>>

\* self.function(*args) raises: the exception leaves wait() and compute()
Raise(p) ==
    /\ pc[p] = "exec"
    /\ pc' = [pc EXCEPT ![p] = "raised"]
    /\ UNCHANGED <<config, args, tag, result, inbox, outbox, bcastq, task_index,
                   closed_workers, results, returned, sent, master_sent, seen>>

\* the positions of a rank inside subcomm.Barrier()
in_barrier(q) == pc[q] \in {"barrier_task", "barrier_exit"}

\* mutant of after_barrier: every member reports to the master, not only sub-rank 0
after_barrier_all_report(p, at) ==
    IF at = "barrier_task" THEN "send_done" ELSE "send_exit"

\* where a rank continues after a Barrier
after_barrier(p, at) ==
    IF at = "barrier_task"
    THEN (IF subcomm_rank(p) = 0 THEN "send_done" ELSE "loop")
    ELSE (IF subcomm_rank(p) = 0 THEN "send_exit" ELSE "returned")

\* mutant of barrier_complete: a rank leaves the Barrier without waiting for the others
barrier_complete_alone(p) == in_barrier(p)

\* a Barrier of the sub-communicator of p completes: all members have entered one
barrier_complete(p) == \A q \in subcomm[p] : in_barrier(q)

\* subcomm.Barrier() (after the task, or after the loop) on the group of sub-rank 0 p
Barrier(p) ==
    /\ subcomm_rank(p) = 0
    /\ in_barrier(p)
    /\ barrier_complete(p)
    /\ pc' = [q \in Ranks |->
                IF q \in subcomm[p] /\ in_barrier(q) THEN after_barrier(q, pc[q]) ELSE pc[q]]
    /\ UNCHANGED <<config, args, tag, result, inbox, outbox, bcastq, task_index,
                   closed_workers, results, returned, sent, master_sent, seen>>

\* comm.send([args[0], result], dest=0, tag=DONE) on sub-rank 0
SendDone(p) ==
    /\ pc[p] = "send_done"
    /\ inbox' = [inbox EXCEPT ![p] = Append(@, Msg(tags.DONE, <<args[p][1], result[p]>>))]
    /\ sent' = [sent EXCEPT ![p] = Append(@, Msg(tags.DONE, <<args[p][1], result[p]>>))]
    /\ pc' = [pc EXCEPT ![p] = "loop"]
    /\ UNCHANGED <<config, args, tag, result, outbox, bcastq, task_index,
                   closed_workers, results, returned, master_sent, seen>>

\* mutant of SendExit: the EXIT report to the master is missing
SendExit_silent(p) ==
    /\ pc[p] = "send_exit"
    /\ pc' = [pc EXCEPT ![p] = "returned"]
    /\ UNCHANGED <<config, args, tag, result, inbox, outbox, bcastq, task_index,
                   closed_workers, results, returned, sent, master_sent, seen>>

\* comm.send(None, dest=0, tag=EXIT) on sub-rank 0, then wait() returns
SendExit(p) ==
    /\ pc[p] = "send_exit"
    /\ inbox' = [inbox EXCEPT ![p] = Append(@, Msg(tags.EXIT, None))]
    /\ sent' = [sent EXCEPT ![p] = Append(@, Msg(tags.EXIT, None))]
    /\ pc' = [pc EXCEPT ![p] = "returned"]
    /\ UNCHANGED <<config, args, tag, result, outbox, bcastq, task_index,
                   closed_workers, results, returned, master_sent, seen>>

\* ---------------------------------------------------------------- master
\* mutant of master_recv: a message may overtake the earlier ones of its sender
master_recv_any_order(source, t) ==
    /\ pc[0] = "dispatch"
    /\ closed_workers < workers
    /\ \E k \in 1..Len(inbox[source]) :
          /\ inbox[source][k].tag = t
          /\ inbox' = [inbox EXCEPT ![source] =
                           SubSeq(@, 1, k - 1) \o SubSeq(@, k + 1, Len(@))]

\* the guard of the master's loop and its comm.recv(ANY_SOURCE, ANY_TAG)
master_recv(source, t) ==
    /\ pc[0] = "dispatch"
    /\ closed_workers < workers
    /\ inbox[source] # <<>>
    /\ Head(inbox[source]).tag = t
    /\ inbox' = [inbox EXCEPT ![source] = Tail(@)]

\* comm.send(data, dest=dest, tag=t) on the master
master_send(dest, t, data) ==
    /\ outbox' = [outbox EXCEPT ![dest] = Append(@, Msg(t, data))]
    /\ master_sent' = [master_sent EXCEPT ![dest] = Append(@, Msg(t, data))]

\* mutant of MasterReady: task_index is not advanced
MasterReady_no_advance(source) ==
    /\ master_recv(source, tags.READY)
    /\ IF task_index < Len(tasks)
       THEN master_send(source, tags.START, <<task_index, tasks[task_index + 1]>>)
       ELSE master_send(source, tags.EXIT, None)
    /\ UNCHANGED <<config, pc, args, tag, result, bcastq, task_index, closed_workers,
                   results, returned, sent, seen>>

\* tag == READY: send the next task, or EXIT when none is left
MasterReady(source) ==
    /\ master_recv(source, tags.READY)
    /\ IF task_index < Len(tasks)
       THEN /\ master_send(source, tags.START, <<task_index, tasks[task_index + 1]>>)
            /\ task_index' = task_index + 1
       ELSE /\ master_send(source, tags.EXIT, None)
            /\ UNCHANGED task_index
    /\ UNCHANGED <<config, pc, args, tag, result, bcastq, closed_workers,
                   results, returned, sent, seen>>

\* tag == DONE: results.append(data)
MasterDone(source) ==
    /\ master_recv(source, tags.DONE)
    /\ results' = Append(results, Head(inbox[source]).data)
    /\ UNCHANGED <<config, pc, args, tag, result, outbox, bcastq, task_index,
                   closed_workers, returned, sent, master_sent, seen>>

\* mutant of MasterExit: an EXIT is counted twice
MasterExit_twice(source) ==
    /\ master_recv(source, tags.EXIT)
    /\ closed_workers' = closed_workers + 2
    /\ UNCHANGED <<config, pc, args, tag, result, outbox, bcastq, task_index,
                   results, returned, sent, master_sent, seen>>

\* tag == EXIT: closed_workers += 1
MasterExit(source) ==
    /\ master_recv(source, tags.EXIT)
    /\ closed_workers' = closed_workers + 1
    /\ UNCHANGED <<config, pc, args, tag, result, outbox, bcastq, task_index,
                   results, returned, sent, master_sent, seen>>

\* mutant of MasterReturn: the loop ends when every task has been sent
MasterReturn_tasks_sent ==
    /\ pc[0] = "dispatch"
    /\ ~(task_index < Len(tasks))
    /\ returned' = return_value(results)
    /\ pc' = [pc EXCEPT ![0] = "returned"]
    /\ UNCHANGED <<config, args, tag, result, inbox, outbox, bcastq, task_index,
                   closed_workers, results, sent, master_sent, seen>>

\* the loop ends; compute() returns the results sorted by task index.
\* (comm.recv and comm.send raise nothing here, so the except branch of the
\* master's loop, lines 262-271, is never entered.)
MasterReturn ==
    /\ pc[0] = "dispatch"
    /\ ~(closed_workers < workers)
    /\ returned' = return_value(results)
    /\ pc' = [pc EXCEPT ![0] = "returned"]
    /\ UNCHANGED <<config, args, tag, result, inbox, outbox, bcastq, task_index,
                   closed_workers, results, sent, master_sent, seen>>

\* ------------------------------------------------------- specifications
\* the steps of a run in which every call of the task function returns
NextOk ==
    \/ \E p \in Ranks : WaitEnter(p)
    \/ \E p \in Ranks : SendReady(p)
    \/ \E p \in Ranks : RecvTask(p)
    \/ \E p \in Ranks : BcastRecv(p)
    \/ \E p \in Ranks : Exec(p)
    \/ \E p \in Ranks : Barrier(p)
    \/ \E p \in Ranks : SendDone(p)
    \/ \E p \in Ranks : SendExit(p)
    \/ \E s \in Ranks : MasterReady(s)
    \/ \E s \in Ranks : MasterDone(s)
    \/ \E s \in Ranks : MasterExit(s)
    \/ MasterReturn

Next ==
    \/ NextOk
    \/ \E p \in Ranks : Raise(p)

\* every run, the task function may raise
Spec == Init /\ [][Next]_vars

\* the runs in which the task function always returns; every rank is a
\* running process, so a step that stays possible is eventually taken
OkSpec == Init /\ [][NextOk]_vars /\ WF_vars(NextOk)

\* every run, with the same progress assumption
FairSpec == Spec /\ WF_vars(Next)

\* ------------------------------------------------------- construction
\* MPIPool(task_function, cpus_per_worker, comm, use_all_cpus=...) is called on
\* every rank of comm with the same arguments; the ranks go through __init__ in
\* step, and `color` is kept per rank.
CtorInit ==
    /\ size \in 1..MaxNRanks
    /\ cpus_per_worker \in (-MaxNegN)..MaxN
    /\ use_all_cpus \in BOOLEAN
    /\ workers = None
    /\ valid_worker = None
    /\ subcomm = None
    /\ cpc = "init"
    /\ loop_i = 0
    /\ chain_ranks = <<>>
    /\ color = [r \in Ranks |-> 0]
    /\ total_ranks = 0
    /\ yielded = <<>>
    /\ error = ""
    /\ warned = FALSE
    /\ tasks = <<>>
    /\ pc = [r \in Ranks |-> "init"]
    /\ args = [r \in Ranks |-> None]
    /\ tag = [r \in Ranks |-> NoTag]
    /\ result = [r \in Ranks |-> None]
    /\ inbox = [r \in Ranks |-> <<>>]
    /\ outbox = [r \in Ranks |-> <<>>]
    /\ bcastq = [r \in Ranks |-> <<>>]
    /\ task_index = 0
    /\ closed_workers = 0
    /\ results = <<>>
    /\ returned = None
    /\ sent = [r \in Ranks |-> <<>>]
    /\ master_sent = [r \in Ranks |-> <<>>]
    /\ seen = [r \in Ranks |-> <<>>]
    /\ NoDataSource
    /\ NoGroup

\* __init__ up to the call of _create_subcomm: one rank alone is refused
CheckSize ==
    /\ cpc = "init"
    /\ IF size = 1
       THEN cpc' = "failed" /\ error' = "ValueError"
       ELSE cpc' = "loop" /\ error' = error
    /\ UNCHANGED <<size, cpus_per_worker, use_all_cpus, workers, valid_worker, subcomm,
                   loop_i, chain_ranks, color, total_ranks, yielded, warned, run_vars>>

\* split_ranks raises when it is first advanced: total % N with N = 0
SplitRaise ==
    /\ cpc = "loop"
    /\ split_raises(cpus_per_worker)
    /\ cpc' = "failed"
    /\ error' = "ZeroDivisionError"
    /\ UNCHANGED <<size, cpus_per_worker, use_all_cpus, workers, valid_worker, subcomm,
                   loop_i, chain_ranks, color, total_ranks, yielded, warned, run_vars>>

\* one iteration of `for i, ranks in split_ranks(...)` in _create_subcomm
SplitStep ==
    /\ cpc = "loop"
    /\ ~split_raises(cpus_per_worker)
    /\ LET gs == split_yields(size, cpus_per_worker, use_all_cpus)
       IN  /\ loop_i < Len(gs)
           /\ LET ranks == gs[loop_i + 1]
              IN  /\ yielded' = Append(yielded, ranks)
                  /\ IF ranks = <<>>
                     THEN /\ cpc' = "failed"
                          /\ error' = "IndexError"
                          /\ UNCHANGED <<loop_i, chain_ranks, color, total_ranks>>
                     ELSE /\ chain_ranks' = Append(chain_ranks, ranks[1])
                          /\ color' = [r \in Ranks |-> create_color(yielded', r)]
                          /\ total_ranks' = total_ranks + Len(ranks)
                          /\ loop_i' = loop_i + 1
                          /\ UNCHANGED <<cpc, error>>
    /\ UNCHANGED <<size, cpus_per_worker, use_all_cpus, workers, valid_worker, subcomm,
                   warned, run_vars>>

\* mutant of AfterLoop: the warning about leftover ranks is never logged
AfterLoop_silent ==
    /\ cpc = "loop"
    /\ ~split_raises(cpus_per_worker)
    /\ loop_i = Len(split_yields(size, cpus_per_worker, use_all_cpus))
    /\ IF loop_i = 0
       THEN /\ cpc' = "failed"
            /\ error' = "NameError"
            /\ UNCHANGED workers
       ELSE /\ workers' = loop_i
            /\ IF too_few_ranks(size, loop_i)
               THEN cpc' = "failed" /\ error' = "ValueError"
               ELSE cpc' = "split" /\ error' = error
    /\ UNCHANGED <<size, cpus_per_worker, use_all_cpus, valid_worker, subcomm,
                   loop_i, chain_ranks, color, total_ranks, yielded, warned, run_vars>>

\* after the loop: self.workers = i+1 (i is unbound when nothing was yielded),
\* the warning about leftover ranks on rank 0, the check of size against workers
AfterLoop ==
    /\ cpc = "loop"
    /\ ~split_raises(cpus_per_worker)
    /\ loop_i = Len(split_yields(size, cpus_per_worker, use_all_cpus))
    /\ IF loop_i = 0
       THEN /\ cpc' = "failed"
            /\ error' = "NameError"
            /\ UNCHANGED <<workers, warned>>
       ELSE /\ workers' = loop_i
            /\ warned' = ((size - 1) - total_ranks # 0)
            /\ IF too_few_ranks(size, loop_i)
               THEN cpc' = "failed" /\ error' = "ValueError"
               ELSE cpc' = "split" /\ error' = error
    /\ UNCHANGED <<size, cpus_per_worker, use_all_cpus, valid_worker, subcomm,
                   loop_i, chain_ranks, color, total_ranks, yielded, run_vars>>

\* self._valid_worker = color > 0; self.subcomm = self.comm.Split(color, 0)
CommSplit ==
    /\ cpc = "split"
    /\ valid_worker' = [r \in Ranks |-> color[r] > 0]
    /\ subcomm' = [r \in Ranks |-> create_subcomm(size, yielded, r)]
    /\ cpc' = "done"
    /\ UNCHANGED <<size, cpus_per_worker, use_all_cpus, workers,
                   loop_i, chain_ranks, color, total_ranks, yielded, error, warned,
                   run_vars>>

CtorNext ==
    \/ CheckSize
    \/ SplitRaise
    \/ SplitStep
    \/ AfterLoop
    \/ CommSplit

\* the construction of a pool, for every communicator size and every
\* cpus_per_worker and use_all_cpus within the bounds
CtorSpec == CtorInit /\ [][CtorNext]_vars

\* ------------------------------------------------------------ shutdown
\* MPIPool.close() on rank p of a constructed pool (also by __exit__): only
\* the master calls self.subcomm.Free()
PoolClose(p) ==
    /\ cpc = "done"
    /\ p \in Ranks
    /\ p \notin shutdown.closed
    /\ shutdown' = [closed |-> shutdown.closed \cup {p},
                    freed |-> IF is_master(p) /\ subcomm # None
                              THEN shutdown.freed \cup {p} ELSE shutdown.freed]
    /\ UNCHANGED <<mpipool_vars, source_vars, sread, group>>

ShutdownNext ==
    \/ CtorNext
    \/ \E p \in 0..(MaxNRanks - 1) : PoolClose(p)

\* a pool is constructed and then closed on every rank, in any order
ShutdownSpec == CtorInit /\ [][ShutdownNext]_vars

\* ------------------------------------------------------- data streams
\* no pool is in use
NoPool ==
    /\ size = 1
    /\ cpus_per_worker = 1
    /\ use_all_cpus = FALSE
    /\ tasks = <<>>
    /\ workers = None
    /\ valid_worker = None
    /\ subcomm = None
    /\ cpc = "none"
    /\ loop_i = 0
    /\ chain_ranks = <<>>
    /\ color = [r \in Ranks |-> 0]
    /\ total_ranks = 0
    /\ yielded = <<>>
    /\ error = ""
    /\ warned = FALSE
    /\ pc = [r \in Ranks |-> "none"]
    /\ args = [r \in Ranks |-> None]
    /\ tag = [r \in Ranks |-> NoTag]
    /\ result = [r \in Ranks |-> None]
    /\ inbox = [r \in Ranks |-> <<>>]
    /\ outbox = [r \in Ranks |-> <<>>]
    /\ bcastq = [r \in Ranks |-> <<>>]
    /\ task_index = 0
    /\ closed_workers = 0
    /\ results = <<>>
    /\ returned = None
    /\ sent = [r \in Ranks |-> <<>>]
    /\ master_sent = [r \in Ranks |-> <<>>]
    /\ seen = [r \in Ranks |-> <<>>]

\* a DataSource plugin was constructed; no stream was opened on it yet
StreamInit ==
    /\ NoPool
    /\ datasource \in {src \in Sources : IsSource(src)}
    /\ weakcache = 0
    /\ heap = <<>>
    /\ ds_size = None
    /\ readall_calls = 0
    /\ lone_opens = 0
    /\ streams = [s \in 1..MaxStreams |-> NewStream]
    /\ gen = NoGen
    /\ size_call = NoCall
    /\ build = <<>>
    /\ NoGroup

\* the streams are constructed in the order of their numbers
Streams == 1..MaxStreams

\* the streams of a DataSource that is read
Readers == 1..MaxReaders

\* DataStream.closed: the stream has no attribute _cacheref
closed(st) == st.status # "open"

\* DataStream.__init__(data, defaults), with the property DataSource._cache it
\* reads: the cache is built (readall is called) when the weak dictionary has
\* no entry, and an exception of the build leaves no stream.
DataStream_init(s, defaults, pin) ==
    /\ streams[s].status = "new"
    /\ IF s = 1 THEN TRUE ELSE streams[s - 1].status # "new"
    /\ lone_opens' = IF \E t \in Streams : streams[t].status = "open"
                      THEN lone_opens ELSE lone_opens + 1
    /\ LET built == cache_data(datasource, ds_size)
           opened(ref, cache) ==
               [status |-> "open", cacheref |-> ref, defaults |-> defaults,
                nread |-> IF empty(cache) THEN 0 ELSE cache.total_size,
                pin |-> pin, scope |-> OutOfScope]
       IN  IF weakcache = 0
           THEN /\ readall_calls' = readall_calls + 1
                /\ ds_size' = built.size
                /\ IF built.error # ""
                   THEN /\ streams' = [streams EXCEPT ![s] =
                               [NewStream EXCEPT !.status = "failed", !.pin = pin]]
                        /\ UNCHANGED <<heap, weakcache>>
                   ELSE /\ heap' = Append(heap, built.cache)
                        /\ weakcache' = Len(heap) + 1
                        /\ streams' = [streams EXCEPT ![s] =
                                          opened(Len(heap) + 1, built.cache)]
           ELSE /\ streams' = [streams EXCEPT ![s] = opened(weakcache, heap[weakcache])]
                /\ UNCHANGED <<readall_calls, ds_size, heap, weakcache>>
    /\ UNCHANGED <<datasource, gen, other_vars>>

\* DataSource.open(defaults)
Open(s, defaults) ==
    /\ DataStream_init(s, defaults, FALSE)
    /\ UNCHANGED datasource

\* DataSource.keep_cache(): a stream without defaults
KeepCache(s) ==
    /\ DataStream_init(s, NoDefaults, TRUE)
    /\ UNCHANGED datasource

\* mutant of close: the attributes are reset whether or not the stream is closed
close_again_resets(st) == [st EXCEPT !.status = "closed", !.cacheref = 0, !.nread = 0]

\* the attributes of the stream after close(): `del self._cacheref` unless
\* closed already
close(st) ==
    IF closed(st) THEN st ELSE [st EXCEPT !.status = "closed", !.cacheref = 0]

\* DataStream.close(); the cache object is freed with its last reference
Close(s) ==
    /\ streams[s].status \in {"open", "closed"}
    /\ LET ss == [streams EXCEPT ![s] = close(@)]
       IN  /\ streams' = ss
           /\ weakcache' = weak_entry(weakcache, Referenced(ss))
    /\ UNCHANGED <<datasource, heap, ds_size, readall_calls, lone_opens, gen,
                   other_vars>>

\* DataStream.__enter__(): `with stream:` is entered, the stream is returned
Enter(s) ==
    /\ streams[s].status \in {"open", "closed"}
    /\ streams[s].scope.status # "in"
    /\ streams' = [streams EXCEPT ![s].scope = [OutOfScope EXCEPT !.status = "in"]]
    /\ UNCHANGED <<datasource, weakcache, heap, ds_size, readall_calls, lone_opens, gen,
                   other_vars>>

\* DataStream.__exit__(exc_type, exc_value, traceback): self.close(), whatever
\* the block is left with
Exit(s, exc_type) ==
    /\ streams[s].scope.status = "in"
    /\ LET left == [status |-> "left", exc_type |-> exc_type,
                    was_closed |-> closed(streams[s])]
           ss == [streams EXCEPT ![s] = [close(@) EXCEPT !.scope = left]]
       IN  /\ streams' = ss
           /\ weakcache' = weak_entry(weakcache, Referenced(ss))
    /\ UNCHANGED <<datasource, heap, ds_size, readall_calls, lone_opens, gen,
                   other_vars>>

\* mutant of ReadCall: the check of `closed` is made by the call of read
ReadCall_checks_closed(s, columns) ==
    /\ gen.status = "none"
    /\ streams[s].status \in {"open", "closed"}
    /\ gen' = [NoGen EXCEPT !.status = IF closed(streams[s]) THEN "raised" ELSE "created",
                             !.error = IF closed(streams[s]) THEN "ValueError" ELSE "",
                             !.stream = s, !.columns = columns,
                             !.called_in = streams[s].scope.status]
    /\ UNCHANGED <<datasource, weakcache, heap, ds_size, readall_calls, lone_opens,
                   streams, other_vars>>

\* DataStream.read(columns): calling the generator function runs none of its body
ReadCall(s, columns) ==
    /\ gen.status = "none"
    /\ streams[s].status \in {"open", "closed"}
    /\ gen' = [NoGen EXCEPT !.status = "created", !.stream = s, !.columns = columns,
                             !.called_in = streams[s].scope.status]
    /\ UNCHANGED <<datasource, weakcache, heap, ds_size, readall_calls, lone_opens,
                   streams, other_vars>>

\* mutant of raised: the generator ends without an exception
raised_quietly(g, e, c) == [g EXCEPT !.status = "done"]

\* the generator raises
raised(g, e, c) == [g EXCEPT !.status = "raised", !.error = e, !.column = c]

\* the body of read from `if not self._cacheref.empty` to its yield
cached_read(g, st, cache) ==
    LET data == [i \in 1..Len(g.columns) |->
                    IF g.columns[i] \in Range(cache.columns)
                    THEN cache.attrs[g.columns[i]] ELSE None]
        valid_columns == Range(cache.columns) \cup DOMAIN st.defaults
        bl == blend_data(g.columns, data, valid_columns, st.defaults, cache.local_size)
        g1 == [g EXCEPT !.mode = "cached", !.size = cache.local_size,
                        !.cacheref = st.cacheref, !.valid_columns = valid_columns]
    IN  IF bl.error # "" THEN raised(g1, bl.error, bl.column)
        ELSE [g1 EXCEPT !.status = "suspended", !.batches = Append(@, bl.newdata)]

\* one iteration of `for data in self.data.parallel_read(columns, full=full)`,
\* for the batch b of parallel_read, up to the yield: the generator, and nread
parallel_batch(g, st, b) ==
    LET data == [i \in 1..Len(g.columns) |->
                    IF g.columns[i] \in Range(datasource.columns)
                    THEN LocalRows(g.columns[i], b, datasource.local_rows) ELSE None]
        indices == {i \in 1..Len(g.columns) : data[i] # None}
        valid_columns == {g.columns[i] : i \in indices} \cup DOMAIN st.defaults
        sz == datasource.local_rows
        nread == st.nread + sz + datasource.remote_rows
        bl == blend_data(g.columns, data, valid_columns, st.defaults, sz)
        g1 == [g EXCEPT !.mode = "streaming", !.size = sz, !.taken = b,
                        !.valid_columns = valid_columns]
    IN  IF b > datasource.nbatches
        THEN [gen |-> [g EXCEPT !.mode = "streaming", !.status = "done"],
              nread |-> st.nread]
        ELSE IF indices = {}
        THEN [gen |-> raised(g1, "ValueError", ""), nread |-> st.nread]
        ELSE IF bl.error # ""
        THEN [gen |-> raised(g1, bl.error, bl.column), nread |-> nread]
        ELSE [gen |-> [g1 EXCEPT !.status = "suspended",
                                 !.batches = Append(@, bl.newdata)],
              nread |-> nread]

\* next() on the generator: the body of read up to its next yield, its end or
\* the exception that leaves it
Advance ==
    /\ gen.status \in {"created", "suspended"}
    /\ LET s == gen.stream
           st == streams[s]
           g == [gen EXCEPT !.advanced_in = st.scope.status]
       IN  IF gen.status = "created"
           THEN IF closed(st)
                THEN /\ gen' = raised(g, "ValueError", "")
                     /\ UNCHANGED streams
                ELSE IF ~empty(heap[st.cacheref])
                THEN /\ gen' = cached_read(g, st, heap[st.cacheref])
                     /\ UNCHANGED streams
                ELSE LET r == parallel_batch([g EXCEPT !.parallel_read_calls = @ + 1],
                                             [st EXCEPT !.nread = 0], 1)
                     IN  /\ gen' = r.gen
                         /\ streams' = [streams EXCEPT ![s].nread = r.nread]
           ELSE IF gen.mode = "cached"
                THEN /\ gen' = [g EXCEPT !.status = "done"]
                     /\ UNCHANGED streams
                ELSE LET r == parallel_batch(g, st, gen.taken + 1)
                     IN  /\ gen' = r.gen
                         /\ streams' = [streams EXCEPT ![s].nread = r.nread]
    /\ UNCHANGED <<datasource, weakcache, heap, ds_size, readall_calls, lone_opens,
                   other_vars>>

\* the caller drops the generator
Discard ==
    /\ gen.status # "none"
    /\ gen' = NoGen
    /\ UNCHANGED <<datasource, weakcache, heap, ds_size, readall_calls, lone_opens,
                   streams, other_vars>>

\* `source.size = val`
SetSize(val) ==
    /\ LET set == size_setter(ds_size, val)
       IN  /\ ds_size' = set.size
           /\ size_call' = [op |-> "set", val |-> <<val>>, error |-> set.error]
    /\ UNCHANGED <<datasource, weakcache, heap, readall_calls, lone_opens, streams, gen,
                   build, pool_vars>>

\* `source.size`
GetSize ==
    /\ LET got == size_getter(ds_size)
       IN  size_call' = [op |-> "get", val |-> got.val, error |-> got.error]
    /\ UNCHANGED <<datasource, weakcache, heap, ds_size, readall_calls, lone_opens,
                   streams, gen, build, pool_vars>>

\* streams and pins are opened and closed on a DataSource
CacheNext ==
    \/ \E s \in Streams, d \in DefaultChoices : Open(s, d)
    \/ \E s \in Streams : KeepCache(s)
    \/ \E s \in Streams : Close(s)

CacheSpec == StreamInit /\ [][CacheNext]_vars

\* the size of a DataSource is set and read, by its user and by the builds of
\* its cache
SizeNext ==
    \/ \E val \in 0..MaxRows : SetSize(val)
    \/ GetSize
    \/ \E s \in Readers, d \in DefaultChoices : Open(s, d)
    \/ \E s \in Readers : Close(s)

SizeSpec == StreamInit /\ [][SizeNext]_vars

\* streams are opened, closed and used as the context of `with` blocks
ScopeNext ==
    \/ \E s \in Readers, d \in DefaultChoices : Open(s, d)
    \/ \E s \in Readers : Enter(s)
    \/ \E s \in Readers : Close(s)
    \/ \E s \in Readers, e \in ExcTypes : Exit(s, e)

ScopeSpec == StreamInit /\ [][ScopeNext]_vars

\* streams are opened, read and closed on a DataSource
StreamNext ==
    \/ \E s \in Readers, d \in DefaultChoices : Open(s, d)
    \/ \E s \in Readers : Close(s)
    \/ \E s \in Readers, c \in Requests : ReadCall(s, c)
    \/ Advance
    \/ Discard

StreamSpec == StreamInit /\ [][StreamNext]_vars

\* streams and pins are opened, read and closed on a DataSource
ShareNext ==
    \/ \E s \in Readers : Open(s, NoDefaults)
    \/ \E s \in Readers : KeepCache(s)
    \/ \E s \in Readers : Close(s)
    \/ \E s \in Readers, c \in ColumnLists : ReadCall(s, c)
    \/ Advance
    \/ Discard

ShareSpec == StreamInit /\ [][ShareNext]_vars

\* the values a caller reads: one column of the source, or one that only a
\* default can give
LateRequests == {<<"X">>, <<"W">>}

\* the one stream that is read late
LateStreams == {1}

\* a stream is the context of a `with` block and is read inside the block and
\* after it
LateNext ==
    \/ \E s \in LateStreams, d \in DefaultChoices : Open(s, d)
    \/ \E s \in LateStreams : Enter(s)
    \/ \E s \in LateStreams, e \in ExcTypes : Exit(s, e)
    \/ \E s \in LateStreams : Close(s)
    \/ \E s \in LateStreams, c \in LateRequests : ReadCall(s, c)
    \/ Advance
    \/ Discard

LateSpec == StreamInit /\ [][LateNext]_vars

\* ------------------------------------------------------ the cache build
\* the processes of a communicator of n processes, by rank
Procs(n) == 0..(n - 1)

\* len() of an array
len(a) == Len(a[2])

\* ScatterArray(d, comm, root=0) on rank r of n: the contiguous share of rank
\* r, the first len(d) % n ranks holding one row more
ScatterArray(d, n, r) ==
    LET total == len(d)
        first == r * (total \div n) + Min(r, total % n)
        count == (total \div n) + (IF r < total % n THEN 1 ELSE 0)
    IN  Array(SubSeq(d[2], first + 1, first + count))

\* the plugins of a cache build: readall returns a dictionary with these
\* columns, or raises
BuildSources ==
    {[kind |-> "ok", columns |-> cl] : cl \in {<<>>} \cup ColumnLists}
        \cup {[kind |-> k, columns |-> <<"X">>] : k \in {"NotImplementedError", "Exception"}}

\* the lengths of the n columns that readall returns: all of the same length,
\* or, as the one representative of unequal lengths, the last column empty
\* and the others not
ReadallLengths(n) ==
    {[i \in 1..n |-> t] : t \in 0..MaxRows}
        \cup {[i \in 1..n |-> IF i = n THEN 0 ELSE MaxRows]}

\* DataSource._verify_data(data): the size it returns, or the exception it raises
verify_data(data) ==
    IF Len(data) = 0 THEN [size |-> None, error |-> "ValueError"]
    ELSE IF \E i \in 1..Len(data) : len(data[i]) # len(data[1])
    THEN [size |-> None, error |-> "RuntimeError"]
    ELSE [size |-> <<len(data[1])>>, error |-> ""]

\* mutant of read_mode: the cache is read whether or not it is empty
read_mode_always_cached(cache) == "cached"

\* the branch DataStream.read takes on a stream that holds the cache
read_mode(cache) == IF ~empty(cache) THEN "cached" ELSE "streaming"

\* mutant of nonroot_data: no entry for the columns
nonroot_data_empty(columns) == <<>>

\* `data = [None for c in columns]` on the processes other than rank 0
nonroot_data(columns) == [i \in 1..Len(columns) |-> None]

\* a process that enters _cache_data.  `totals` is history on rank 0: the
\* sizes _verify_data returned, call by call; `calls` is history: the
\* collective calls of this call of _cache_data, in order
EnterBuild(r, round, stored, queue, totals) ==
    [pc |-> IF r = 0 THEN "readall" ELSE "bcast_success",
     round |-> round, success |-> FALSE, columns |-> <<>>, data |-> None, size |-> None,
     cache |-> <<>>, error |-> "", raised_in |-> "", ret |-> None,
     stored |-> stored, queue |-> queue, totals |-> totals, calls |-> <<>>]

\* the exception e leaves _cache_data, raised in `where`
build_raises(b, e, where) == [b EXCEPT !.pc = "raised", !.error = e, !.raised_in = where]

\* rank r after its call of comm.bcast at `what` returned value
after_bcast(b, r, what, value) ==
    LET called == [b EXCEPT !.calls = Append(@, <<"bcast", what>>)]
    IN  CASE what = "bcast_success" ->
                 IF value
                 THEN [called EXCEPT !.success = value, !.pc = "bcast_columns",
                                     !.columns = IF r = 0 THEN datasource.columns ELSE @]
                 ELSE [called EXCEPT !.success = value, !.pc = "returned",
                                     !.ret = DataCache(<<>>, <<>>, 0, 0)]
          [] what = "bcast_columns" ->
                 IF r = 0 THEN [called EXCEPT !.columns = value, !.pc = "verify"]
                 ELSE [called EXCEPT !.columns = value, !.pc = "bcast_size",
                                     !.data = nonroot_data(value)]
          [] what = "bcast_size" ->
                 [called EXCEPT !.size = value,
                                !.pc = IF Len(called.data) = 0 THEN "finish" ELSE "scatter"]

\* mutant of finish_build: self.size is not assigned
finish_build_unset(b) ==
    [b EXCEPT !.pc = "returned",
              !.ret = DataCache(b.columns, b.cache, len(b.cache[1]), b.size[1])]

\* _cache_data after the loop of ScatterArray: the check of the local sizes,
\* `self.size = size` and the DataCache returned
finish_build(b) ==
    LET set == size_setter(b.stored, b.size[1])
    IN  IF Len(b.cache) = 0
        THEN build_raises(b, "IndexError", "local_sizes")
        ELSE IF \E i \in 1..Len(b.cache) : len(b.cache[i]) # len(b.cache[1])
        THEN build_raises(b, "RuntimeError", "local_sizes")
        ELSE IF set.error # ""
        THEN build_raises(b, set.error, "size")
        ELSE [b EXCEPT !.pc = "returned", !.stored = set.size,
                       !.ret = DataCache(b.columns, b.cache, len(b.cache[1]), b.size[1])]

\* every process of a communicator of 1..MaxProcs processes has entered
\* _cache_data of the same DataSource, whose size is not set
BuildInit ==
    /\ NoPool
    /\ datasource \in BuildSources
    /\ weakcache = 0
    /\ heap = <<>>
    /\ ds_size = None
    /\ readall_calls = 0
    /\ lone_opens = 0
    /\ streams = <<>>
    /\ gen = NoGen
    /\ size_call = NoCall
    /\ build \in {[r \in Procs(n) |-> EnterBuild(r, 1, None, <<>>, <<>>)] : n \in 1..MaxProcs}
    /\ NoGroup

build_unchanged ==
    UNCHANGED <<datasource, weakcache, heap, ds_size, readall_calls, lone_opens, streams,
                gen, size_call, pool_vars>>

\* rank 0: `data = self.readall()` in its try block
ReadAll ==
    /\ build[0].pc = "readall"
    /\ IF datasource.kind = "Exception"
       THEN build' = [build EXCEPT ![0] = build_raises(@, "Exception", "readall")]
       ELSE IF datasource.kind = "NotImplementedError"
       THEN build' = [build EXCEPT ![0].pc = "bcast_success"]
       ELSE \E lens \in ReadallLengths(Len(datasource.columns)) :
               build' = [build EXCEPT
                   ![0].pc = "bcast_success",
                   ![0].success = TRUE,
                   ![0].data = [i \in 1..Len(datasource.columns) |->
                                   LocalRows(datasource.columns[i], 0, lens[i])]]
    /\ build_unchanged

\* comm.bcast(success / columns / size, root=0) on rank r
Bcast(r) ==
    /\ r \in DOMAIN build
    /\ build[r].pc \in {"bcast_success", "bcast_columns", "bcast_size"}
    /\ LET what == build[r].pc
           value == CASE what = "bcast_success" -> build[0].success
                      [] what = "bcast_columns" -> build[0].columns
                      [] what = "bcast_size" -> build[0].size
       IN  IF r = 0
           THEN build' = [q \in DOMAIN build |->
                             IF q = 0 THEN after_bcast(build[0], 0, what, value)
                             ELSE [build[q] EXCEPT !.queue = Append(@, <<what, value>>)]]
           ELSE /\ build[r].queue # <<>>
                /\ Head(build[r].queue)[1] = what
                /\ build' = [build EXCEPT ![r] =
                       after_bcast([@ EXCEPT !.queue = Tail(@)], r, what,
                                   Head(build[r].queue)[2])]
    /\ build_unchanged

\* rank 0: `size = self._verify_data(data)`
Verify ==
    /\ build[0].pc = "verify"
    /\ LET v == verify_data(build[0].data)
       IN  build' = [build EXCEPT ![0] =
               IF v.error # "" THEN build_raises(@, v.error, "_verify_data")
               ELSE [@ EXCEPT !.size = v.size, !.totals = Append(@, v.size[1]),
                              !.pc = "bcast_size"]]
    /\ build_unchanged

\* one iteration of `for d in data` on rank r: ScatterArray(d, self.comm, root=0)
Scatter(r) ==
    /\ r \in DOMAIN build
    /\ build[r].pc = "scatter"
    /\ LET n == Cardinality(DOMAIN build)
           i == Len(build[r].cache) + 1
           scattered(b, d) ==
               [b EXCEPT !.cache = Append(@, ScatterArray(d, n, r)),
                         !.calls = Append(@, <<"ScatterArray", b.columns[i]>>),
                         !.pc = IF i = Len(b.data) THEN "finish" ELSE "scatter"]
       IN  IF r = 0
           THEN build' = [q \in DOMAIN build |->
                             IF q = 0 THEN scattered(build[0], build[0].data[i])
                             ELSE [build[q] EXCEPT !.queue =
                                      Append(@, <<"ScatterArray", build[0].data[i]>>)]]
           ELSE /\ build[r].queue # <<>>
                /\ Head(build[r].queue)[1] = "ScatterArray"
                /\ build' = [build EXCEPT ![r] =
                       scattered([@ EXCEPT !.queue = Tail(@)], Head(build[r].queue)[2])]
    /\ build_unchanged

\* rank r: from the check of local_sizes to the return
Finish(r) ==
    /\ r \in DOMAIN build
    /\ build[r].pc = "finish"
    /\ build' = [build EXCEPT ![r] = finish_build(@)]
    /\ build_unchanged

\* rank r: the streams that held the cache were closed, the next stream is
\* constructed and DataSource._cache calls _cache_data again
BeginBuild(r) ==
    /\ r \in DOMAIN build
    /\ build[r].pc = "returned"
    /\ build[r].round < MaxBuilds
    /\ build' = [build EXCEPT ![r] =
           EnterBuild(r, @.round + 1, @.stored, @.queue, @.totals)]
    /\ build_unchanged

BuildNext ==
    \/ ReadAll
    \/ Verify
    \/ \E r \in Procs(MaxProcs) : Bcast(r)
    \/ \E r \in Procs(MaxProcs) : Scatter(r)
    \/ \E r \in Procs(MaxProcs) : Finish(r)
    \/ \E r \in Procs(MaxProcs) : BeginBuild(r)

BuildSpec == BuildInit /\ [][BuildNext]_vars

\* a process that can take a step of _cache_data takes one
FairBuildSpec == BuildSpec /\ WF_vars(BuildNext)

\* ---------------------------------------------------- the streaming read
\* self.nread after DataStream.__init__ on the cache of the DataSource
opened_nread(cache) == IF empty(cache) THEN 0 ELSE cache.total_size

\* the rows of batch b of parallel_read on rank r
BatchRows(r, b) == (r + b) % (MaxRows + 1)

\* the caches a stream that is read by every process was opened on: the
\* empty one, and one of MaxRows rows on each of n processes
ReadCaches(n) ==
    {DataCache(<<>>, <<>>, 0, 0),
     DataCache(<<"X">>, <<LocalRows("X", 0, MaxRows)>>, MaxRows, n * MaxRows)}

\* what an earlier read of a stream left in nread: nothing, or its rows
EarlierRows == {0, MaxRows}

\* rank r has called read(columns) on its open stream; parallel_read will
\* yield nbatches batches on this rank
NewRead(cache, earlier, nbatches) ==
    [pc |-> "created", mode |-> "", cache |-> cache,
     nread |-> IF empty(cache) THEN opened_nread(cache) + earlier ELSE opened_nread(cache),
     nbatches |-> nbatches, taken |-> 0, size |-> 0, reduced |-> <<>>]

\* mutant of allreduce: the local value, not the sum
allreduce_local(r, values) == values[r]

\* comm.allreduce(size) on rank r, values[q] being the argument of rank q
RECURSIVE allreduce_upto(_, _)
allreduce_upto(q, values) == IF q < 0 THEN 0 ELSE values[q] + allreduce_upto(q - 1, values)

allreduce(r, values) == allreduce_upto(Cardinality(DOMAIN values) - 1, values)

\* the loop of the streaming branch from the next batch of parallel_read to
\* the call of comm.allreduce, or to the end of the generator
next_batch(r, g) ==
    IF g.taken < g.nbatches
    THEN [g EXCEPT !.taken = @ + 1, !.size = BatchRows(r, g.taken + 1), !.pc = "allreduce"]
    ELSE [g EXCEPT !.pc = "done"]

\* every process has opened a stream on the DataSource and called read
SReadInit ==
    /\ NoPool
    /\ NoDataSource
    /\ shutdown = [closed |-> {}, freed |-> {}]
    /\ group = <<>>
    /\ sread \in UNION {
          {[r \in Procs(n) |-> NewRead(c, e, nb[r])] :
               c \in ReadCaches(n), e \in EarlierRows, nb \in [Procs(n) -> 0..MaxBatches]} :
          n \in 1..MaxProcs}

sread_unchanged == UNCHANGED <<mpipool_vars, source_vars, shutdown, group>>

\* the first advance of the generator on rank r: the cached branch up to its
\* yield, or the streaming branch up to its first comm.allreduce
FirstAdvance(r) ==
    /\ r \in DOMAIN sread
    /\ sread[r].pc = "created"
    /\ LET g == sread[r]
       IN  sread' = [sread EXCEPT ![r] =
               IF read_mode(g.cache) = "cached"
               THEN [g EXCEPT !.mode = "cached", !.pc = "yielded",
                              !.size = g.cache.local_size]
               ELSE next_batch(r, [g EXCEPT !.mode = "streaming", !.nread = 0])]
    /\ sread_unchanged

\* comm.allreduce(size) returns on every process once every process has
\* called it; `self.nread += ...` and the yield of the batch
Allreduce ==
    /\ sread # <<>>
    /\ \A r \in DOMAIN sread : sread[r].pc = "allreduce"
    /\ LET values == [q \in DOMAIN sread |-> sread[q].size]
       IN  sread' = [r \in DOMAIN sread |->
               [sread[r] EXCEPT !.nread = @ + allreduce(r, values),
                                !.reduced = Append(@, sread[r].size),
                                !.pc = "yielded"]]
    /\ sread_unchanged

\* a later advance of the generator on rank r
LaterAdvance(r) ==
    /\ r \in DOMAIN sread
    /\ sread[r].pc = "yielded"
    /\ LET g == sread[r]
       IN  sread' = [sread EXCEPT ![r] =
               IF g.mode = "cached" THEN [g EXCEPT !.pc = "done"] ELSE next_batch(r, g)]
    /\ sread_unchanged

SReadNext ==
    \/ \E r \in Procs(MaxProcs) : FirstAdvance(r)
    \/ Allreduce
    \/ \E r \in Procs(MaxProcs) : LaterAdvance(r)

SReadSpec == SReadInit /\ [][SReadNext]_vars

\* every caller iterates over its generator to the end, and a collective
\* every process has called returns
FairSReadSpec == SReadSpec /\ WF_vars(SReadNext)

\* ------------------------------------------- a DataSource used by a group
\* the streams and pins a process constructs, in this order
Handles == {1, 2}

\* source.open(), source.keep_cache() and stream.close() on handle h
Ops == {[op |-> o, h |-> h] : o \in {"open", "pin", "close"}, h \in Handles}

\* a stream is constructed once, the streams in the order of their numbers,
\* and only a constructed stream is closed
IsProgram(prog) ==
    \A i \in 1..Len(prog) :
        LET made == {prog[j].h : j \in {k \in 1..(i - 1) : prog[k].op # "close"}}
        IN  IF prog[i].op = "close" THEN prog[i].h \in made
            ELSE prog[i].h \notin made /\ (prog[i].h = 1 \/ prog[i].h - 1 \in made)

Programs == {prog \in UNION {[1..k -> Ops] : k \in 0..MaxOps} : IsProgram(prog)}

\* a process that has performed none of the operations.  `open` are its open
\* streams, `entry` whether its weak dictionary holds a cache, `builds` the
\* calls of _cache_data it has made, and as history `built_at`: the
\* operations that made them
NewProc == [ip |-> 0, pc |-> "run", open |-> {}, entry |-> 0, builds |-> 0,
            built_at |-> <<>>]

\* every process of a communicator of 1..MaxProcs processes is about to
\* perform the same operations
GroupInit ==
    /\ NoPool
    /\ NoDataSource
    /\ shutdown = [closed |-> {}, freed |-> {}]
    /\ sread = <<>>
    /\ group \in {[program |-> prog, procs |-> [r \in Procs(n) |-> NewProc]] :
                     prog \in Programs, n \in 1..MaxProcs}

group_unchanged == UNCHANGED <<mpipool_vars, source_vars, shutdown, sread>>

\* process r constructs its next stream or pin: DataStream.__init__ reads
\* data._cache, which calls _cache_data when the weak dictionary has no entry
GroupOpen(r) ==
    /\ r \in DOMAIN group.procs
    /\ LET g == group.procs[r]
       IN  /\ g.pc = "run"
           /\ g.ip < Len(group.program)
           /\ group.program[g.ip + 1].op \in {"open", "pin"}
           /\ group' = [group EXCEPT !.procs[r] =
                  IF g.entry # 0
                  THEN [g EXCEPT !.ip = @ + 1, !.open = @ \cup {group.program[g.ip + 1].h}]
                  ELSE [g EXCEPT !.pc = "build", !.builds = @ + 1,
                                 !.built_at = Append(@, g.ip + 1)]]
    /\ group_unchanged

\* the collective calls of _cache_data return on process r: on rank 0 without
\* waiting, on the others once rank 0 has made the matching call; the cache
\* is stored and the stream holds it
GroupBuilt(r) ==
    /\ r \in DOMAIN group.procs
    /\ LET g == group.procs[r]
       IN  /\ g.pc = "build"
           /\ IF r = 0 THEN TRUE ELSE group.procs[0].builds >= g.builds
           /\ group' = [group EXCEPT !.procs[r] =
                  [g EXCEPT !.pc = "run", !.ip = @ + 1, !.entry = g.builds,
                            !.open = @ \cup {group.program[g.ip + 1].h}]]
    /\ group_unchanged

\* process r closes a stream: the cache is freed with its last reference
GroupClose(r) ==
    /\ r \in DOMAIN group.procs
    /\ LET g == group.procs[r]
           left == g.open \ {group.program[g.ip + 1].h}
       IN  /\ g.pc = "run"
           /\ g.ip < Len(group.program)
           /\ group.program[g.ip + 1].op = "close"
           /\ group' = [group EXCEPT !.procs[r] =
                  [g EXCEPT !.ip = @ + 1, !.open = left,
                            !.entry = weak_entry(@, IF left = {} THEN {} ELSE {g.entry})]]
    /\ group_unchanged

GroupNext ==
    \/ \E r \in Procs(MaxProcs) : GroupOpen(r)
    \/ \E r \in Procs(MaxProcs) : GroupBuilt(r)
    \/ \E r \in Procs(MaxProcs) : GroupClose(r)

GroupSpec == GroupInit /\ [][GroupNext]_vars

\* every process goes on with its operations, and a collective call whose
\* root has made the matching call returns
FairGroupSpec == GroupSpec /\ WF_vars(GroupNext)

\* ------------------------------------------------------ auxiliary notions
\* the worker groups as the partitioner yields them
Groups == split_ranks(size, cpus_per_worker, use_all_cpus)

\* the lowest rank of each of the groups gs
CoordinatorsOf(gs) ==
    {r \in Ranks : \E i \in 1..Len(gs) :
        r \in Range(gs[i]) /\ \A q \in Range(gs[i]) : r <= q}

\* the ranks of the group of gs that holds r (empty when r is in none)
MembersOf(gs, r) == UNION {Range(gs[i]) : i \in {j \in 1..Len(gs) : r \in Range(gs[j])}}

\* the lowest rank of each worker group
LocalCoordinators == CoordinatorsOf(Groups)

\* the ranks other than the master that the partitioner left ungrouped
IdleRanks == LET gs == Groups IN {r \in Ranks : r # 0 /\ MembersOf(gs, r) = {}}

IsStartMsg(m) == m.tag = tags.START
IsExitMsg(m) == m.tag = tags.EXIT
IsDoneMsg(m) == m.tag = tags.DONE

\* the START messages the master has sent, as <<destination, position>>
StartsSent ==
    UNION {{<<r, k>> : k \in {j \in 1..Len(master_sent[r]) : IsStartMsg(master_sent[r][j])}} :
              r \in Ranks}

NumStarted == Cardinality(StartsSent)

\* the task indices the master has sent in a START
StartedIndices == {master_sent[e[1]][e[2]].data[1] : e \in StartsSent}

\* the messages of r the master has received so far
Received(r) == SubSeq(sent[r], 1, Len(sent[r]) - Len(inbox[r]))

ExitsSent(r) == Len(SelectSeq(sent[r], IsExitMsg))
ExitsReceived(r) == Len(SelectSeq(Received(r), IsExitMsg))

IsPrefix(s, t) == Len(s) <= Len(t) /\ \A i \in 1..Len(s) : s[i] = t[i]

AllReturned == \A p \in Ranks : pc[p] = "returned"

\* ------------------------------------------------------------------ C1
\* C1: when compute returns on the master, the returned list has exactly
\* one entry per task and entry i is a result of the task function called
\* with (i, tasks[i]), whatever the order in which the results arrived.
C1_ResultsInSubmissionOrder ==
    pc[0] = "returned" =>
        /\ Len(returned) = Len(tasks)
        /\ \A i \in 1..Len(tasks) :
              \E r \in Ranks : returned[i] = function(r, <<i - 1, tasks[i]>>)

\* two groups, the second task's result arrived before the first one's
C1_Witness ==
    /\ pc[0] = "returned"
    /\ workers = 2
    /\ Len(results) = 2
    /\ results[1][1] = 1
    /\ results[2][1] = 0

\* ------------------------------------------------------------------ C2
\* C2: the k-th START the master sends carries task index k-1 and its task
\* and goes to one rank, so every index is sent at most once and in
\* increasing order, never more STARTs than tasks, and all of them once
\* compute has returned; every READY the master takes is answered to its
\* sender, with EXIT (never START) once every task has been sent.
C2_StartState ==
    /\ NumStarted <= Len(tasks)
    /\ StartedIndices = 0..(NumStarted - 1)
    /\ \A e \in StartsSent :
          LET m == master_sent[e[1]][e[2]]
          IN  m.data = <<m.data[1], tasks[m.data[1] + 1]>>
    /\ pc[0] = "returned" => NumStarted = Len(tasks)

C2_ReadyStep ==
    \A s \in Ranks :
        /\ master_sent'[s] # master_sent[s] =>
              LET m == master_sent'[s][Len(master_sent'[s])]
              IN  /\ master_sent'[s] = Append(master_sent[s], m)
                  /\ outbox'[s] = Append(outbox[s], m)
                  /\ IF NumStarted < Len(tasks)
                     THEN m = Msg(tags.START, <<NumStarted, tasks[NumStarted + 1]>>)
                     ELSE m = Msg(tags.EXIT, None)
        /\ ( /\ inbox[s] # <<>>
             /\ Head(inbox[s]).tag = tags.READY
             /\ inbox'[s] = Tail(inbox[s]) )
           => master_sent'[s] # master_sent[s]

C2_StartOncePerTaskInOrder == [](C2_StartState) /\ [][C2_ReadyStep]_vars

\* two tasks went to two different groups and compute has returned
C2_Witness ==
    /\ pc[0] = "returned"
    /\ NumStarted = 2
    /\ \E e \in StartsSent : \E f \in StartsSent : e[1] # f[1]

\* ------------------------------------------------------------------ C3
\* C3: once the task function has raised on some rank, every rank
\* eventually terminates (none stays blocked in a receive, broadcast or
\* barrier).
C3_FailureAbortsRun ==
    (\E p \in Ranks : pc[p] = "raised")
        ~> (\A p \in Ranks : pc[p] \in {"returned", "raised"})

\* ------------------------------------------------------------------ C4
\* C4: when every call of the task function returns, compute eventually
\* returns on the master and every other rank eventually leaves wait().
C4_EveryRankReturns == <>AllReturned

\* two groups and two tasks, everybody has returned
C4_Witness ==
    /\ AllReturned
    /\ workers = 2
    /\ Len(tasks) = 2
    /\ Len(returned) = 2

\* ------------------------------------------------------------------ C5
\* C5: the closed-group counter never exceeds the number of groups; a rank
\* sends at most one EXIT, and only a local coordinator that was sent EXIT
\* by the master and whose whole group has left wait(); compute returns
\* only after the master has received the EXIT of every group.
C5_ExitHandshake ==
    /\ closed_workers <= workers
    /\ \A r \in Ranks : ExitsSent(r) <= 1
    /\ LET gs == Groups
           coords == CoordinatorsOf(gs)
       IN  /\ \A r \in Ranks : ExitsSent(r) = 1 =>
                 /\ r \in coords
                 /\ Msg(tags.EXIT, None) \in Range(master_sent[r])
                 /\ tag[r] = tags.EXIT
                 /\ \A q \in MembersOf(gs, r) : pc[q] = "returned"
           /\ pc[0] = "returned" =>
                 /\ closed_workers = workers
                 /\ \A c \in coords : ExitsReceived(c) = 1

\* compute has returned after the EXIT of two groups, one of them a single rank
C5_Witness ==
    /\ pc[0] = "returned"
    /\ closed_workers = 2
    /\ \E c \in LocalCoordinators :
          ExitsReceived(c) = 1 /\ Cardinality(MembersOf(Groups, c)) = 1

\* ------------------------------------------------------------------ C6
\* C6: while the local coordinator of a group is about to send DONE, or is
\* asking the master for the next task, no member of the group is inside
\* the task function; and no member ever runs a task whose DONE was sent.
C6_DoneAfterAllFinished ==
    LET gs == Groups
    IN  \A c \in CoordinatorsOf(gs) : \A q \in MembersOf(gs, c) :
            /\ pc[c] \in {"send_done", "loop", "recv"} => pc[q] # "exec"
            /\ \A k \in 1..Len(sent[c]) :
                  (IsDoneMsg(sent[c][k]) /\ pc[q] = "exec" /\ args[q] # None)
                      => args[q][1] # sent[c][k].data[1]

\* a group of two ranks has reported a task and asks for the next one
C6_Witness ==
    \E c \in LocalCoordinators :
        /\ Cardinality(MembersOf(Groups, c)) >= 2
        /\ pc[c] = "recv"
        /\ \E k \in 1..Len(sent[c]) : IsDoneMsg(sent[c][k])

\* ------------------------------------------------------------------ C7
\* C7: iteration by iteration, every member of a group holds the args and
\* the tag its local coordinator held; a member that has left wait() has
\* gone through exactly the coordinator's iterations, the last one EXIT.
C7_SameTagAndArgsInGroup ==
    LET gs == Groups
    IN  \A c \in CoordinatorsOf(gs) : \A q \in MembersOf(gs, c) :
            /\ IsPrefix(seen[q], seen[c])
            /\ pc[q] = "returned" =>
                  /\ seen[q] = seen[c]
                  /\ seen[q] # <<>>
                  /\ seen[q][Len(seen[q])][2] = tags.EXIT
                  /\ \A k \in 1..(Len(seen[q]) - 1) : seen[q][k][2] = tags.START

\* both ranks of a group of two have run two tasks and left
C7_Witness ==
    \E c \in LocalCoordinators : \E q \in MembersOf(Groups, c) :
        /\ q # c
        /\ pc[q] = "returned"
        /\ Len(seen[q]) = 3

\* ------------------------------------------------------------------ C8
\* C8: only the lowest rank of a worker group ever sends a message to the
\* master, waits for one from it, or is the destination of one.
C8_OnlyCoordinatorsTalkToMaster ==
    LET coords == LocalCoordinators
    IN  /\ \A r \in Ranks :
              (sent[r] # <<>> \/ inbox[r] # <<>> \/ outbox[r] # <<>> \/ pc[r] = "recv")
                  => r \in coords
        /\ \A r \in Ranks : master_sent[r] # <<>> => r \in coords

\* a group of two and an idle rank; the group's task was reported
C8_Witness ==
    /\ IdleRanks # {}
    /\ \E c \in LocalCoordinators :
          /\ Cardinality(MembersOf(Groups, c)) = 2
          /\ \E k \in 1..Len(sent[c]) : IsDoneMsg(sent[c][k])
    /\ pc[0] = "returned"

\* ------------------------------------------------------------------ C9
\* C9: every result the master records for task i is the value the task
\* function returned on the local coordinator of the group task i was sent
\* to, and so is entry i of the list compute returns.
C9_ResultOf(coords, i, res) ==
    \E c \in coords :
        /\ Msg(tags.START, <<i, tasks[i + 1]>>) \in Range(master_sent[c])
        /\ res = function(c, <<i, tasks[i + 1]>>)

C10_IdleRankOnlyReturns ==
    \A r \in IdleRanks :
        /\ pc[r] \in {"wait", "returned"}
        /\ sent[r] = <<>>
        /\ inbox[r] = <<>>
        /\ outbox[r] = <<>>
        /\ bcastq[r] = <<>>
        /\ seen[r] = <<>>
        /\ master_sent[r] = <<>>

\* an idle rank has returned from wait() while the master is still
\* dispatching and already holds a result
C10_Witness ==
    \E r \in IdleRanks :
        /\ pc[r] = "returned"
        /\ pc[0] = "dispatch"
        /\ results # <<>>

\* ------------------------------------- notions about a construction
\* the loop over split_ranks has ended: the generator is exhausted
Exhausted == cpc \in {"split", "done"} \/ (cpc = "failed" /\ error = "NameError")

\* __init__ has returned or raised
Finished == cpc \in {"done", "failed"}

\* (R-1) mod g for a group size g >= 1
Remainder == (size - 1) % cpus_per_worker

\* the ranks that are in one of the yielded groups
Grouped == UNION {Range(yielded[i]) : i \in 1..Len(yielded)}

\* ----------------------------------------------------------------- C11
\* C11: for R >= 2 and g >= 1, when split_ranks is exhausted it has yielded
\* floor((R-1)/g) groups if include_all is false, and with include_all true
\* none of the groups it yields has more than g+1 members.
C11_GroupCountAndSize ==
    (size >= 2 /\ cpus_per_worker >= 1) =>
        /\ (Exhausted /\ ~use_all_cpus) =>
              Len(yielded) = (size - 1) \div cpus_per_worker
        /\ use_all_cpus =>
              \A i \in 1..Len(yielded) : Len(yielded[i]) <= cpus_per_worker + 1

\* include_all with a remainder: a group of g+1 members was yielded
C11_Witness ==
    /\ Exhausted
    /\ use_all_cpus
    /\ cpus_per_worker = 2
    /\ Len(yielded) = 2
    /\ \E i \in 1..Len(yielded) : Len(yielded[i]) = cpus_per_worker + 1

\* ----------------------------------------------------------------- C12
\* C12: with include_all true and a remainder e = (R-1) mod g > 0, once
\* split_ranks is exhausted the groups 0..e-1 have g+1 members and the
\* later ones g; R=6, g=2 yields [1,2,3] and [4,5].
C12_ExtraToEarliestGroups ==
    (Exhausted /\ use_all_cpus /\ size >= 2 /\ cpus_per_worker >= 1 /\ Remainder # 0) =>
        /\ \A i \in 1..Len(yielded) :
              Len(yielded[i]) = IF i <= Remainder THEN cpus_per_worker + 1
                                ELSE cpus_per_worker
        /\ (size = 6 /\ cpus_per_worker = 2) => yielded = << <<1, 2, 3>>, <<4, 5>> >>

\* ----------------------------------------------------------------- C13
\* C13: with include_all true, R >= 2, g >= 1 and at least one group, once
\* split_ranks is exhausted every rank 1..R-1 is in exactly one group.
C13_NoRankLeftIdle ==
    (Exhausted /\ use_all_cpus /\ size >= 2 /\ cpus_per_worker >= 1 /\ Len(yielded) >= 1) =>
        \A r \in 1..(size - 1) :
            Cardinality({i \in 1..Len(yielded) : r \in Range(yielded[i])}) = 1

\* ----------------------------------------------------------------- C14
\* C14: the groups yielded so far never hold rank 0, each is a non-empty run
\* of consecutive ranks, the first starts at rank 1 and each next one right
\* after the last rank of the one before (so they are pairwise disjoint);
\* with include_all false group i is [1+i*g, ..., (i+1)*g].
C14_ConsecutiveDisjointGroups ==
    /\ \A i \in 1..Len(yielded) :
          /\ yielded[i] # <<>>
          /\ 0 \notin Range(yielded[i])
          /\ \A k \in 1..(Len(yielded[i]) - 1) : yielded[i][k + 1] = yielded[i][k] + 1
          /\ yielded[i][1] = IF i = 1 THEN 1
                             ELSE yielded[i - 1][Len(yielded[i - 1])] + 1
          /\ \A j \in 1..Len(yielded) : i # j => Range(yielded[i]) \cap Range(yielded[j]) = {}
          /\ ~use_all_cpus =>
                yielded[i] = [k \in 1..cpus_per_worker |-> (i - 1) * cpus_per_worker + k]
    /\ (Exhausted /\ size = 5 /\ cpus_per_worker = 2 /\ ~use_all_cpus) =>
          /\ yielded = << <<1, 2>>, <<3, 4>> >>
          /\ Grouped = 1..4

\* R=5, g=2: the two groups [1,2] and [3,4] were yielded
C14_Witness ==
    /\ Exhausted
    /\ size = 5
    /\ cpus_per_worker = 2
    /\ ~use_all_cpus
    /\ Len(yielded) = 2

\* ----------------------------------------------------------------- C15
\* C15 as stated: with include_all false, g >= 1 and (R-1) mod g # 0, the
\* construction succeeds, rank 0 has logged the warning, and exactly the
\* (R-1) mod g highest ranks are in no group and are no valid workers.
C15_Conclusion ==
    /\ cpc = "done"
    /\ error = ""
    /\ warned
    /\ \A r \in 1..(size - 1) :
          /\ (r \notin Grouped) <=> (r > size - 1 - Remainder)
          /\ (~valid_worker[r]) <=> (r > size - 1 - Remainder)

C15_RemainderLeftUngrouped_Original ==
    (Finished /\ ~use_all_cpus /\ cpus_per_worker >= 1 /\ Remainder # 0)
        => C15_Conclusion

\* C15 as amended: the same, for a group size g <= R-1, so that at least one
\* group is yielded.
C15_RemainderLeftUngrouped ==
    (Finished /\ ~use_all_cpus /\ cpus_per_worker >= 1 /\ Remainder # 0
        /\ cpus_per_worker <= size - 1)
        => C15_Conclusion

\* R=6, g=2: rank 5 is left ungrouped and the pool is constructed
C15_Witness ==
    /\ cpc = "done"
    /\ ~use_all_cpus
    /\ size = 6
    /\ cpus_per_worker = 2
    /\ warned
    /\ ~valid_worker[5]

\* ----------------------------------------------------------------- C16
\* C16: with R >= 2, when the group size is <= 0 or larger than R-1 (no
\* group is yielded) the construction ends with ValueError and no
\* sub-communicator has been created.
C16_BadGroupSizeIsValueError ==
    (Finished /\ size >= 2 /\ (cpus_per_worker <= 0 \/ cpus_per_worker > size - 1)) =>
        /\ cpc = "failed"
        /\ error = "ValueError"
        /\ subcomm = None

\* ----------------------------------------------------------------- C17
\* C17: on a single rank the construction ends with an error and never has a
\* sub-communicator; on two or more ranks with a group size g, 1 <= g <= R-1,
\* it ends without error and with the sub-communicators created.
C17_OneRankFails ==
    /\ size = 1 => (subcomm = None /\ (Finished => (cpc = "failed" /\ error # "")))
    /\ (Finished /\ size >= 2 /\ cpus_per_worker >= 1 /\ cpus_per_worker <= size - 1) =>
          /\ cpc = "done"
          /\ error = ""
          /\ subcomm # None

\* the construction on one rank has failed
C17_Witness ==
    /\ size = 1
    /\ cpc = "failed"
    /\ error = "ValueError"

\* ----------------------------------------------------------------- C18
\* C18: after a construction rank 0 has color 0, the members of the k-th
\* yielded group have color k, all colors are in 0..W, is_worker() holds
\* exactly for the ranks of some group, two ranks share a non-zero color
\* exactly when they are in the same group, and W is the number of groups.
C18_ColorsMatchGroups ==
    cpc = "done" =>
        /\ workers = Len(yielded)
        /\ color[0] = 0
        /\ ~is_worker(0)
        /\ \A r \in Ranks :
              /\ color[r] \in 0..workers
              /\ is_worker(r) <=> r \in Grouped
              /\ \A k \in 1..Len(yielded) : r \in Range(yielded[k]) => color[r] = k
              /\ \A q \in Ranks :
                    (color[r] # 0 \/ color[q] # 0) =>
                        ((color[r] = color[q]) <=>
                            \E k \in 1..Len(yielded) : {r, q} \subseteq Range(yielded[k]))

\* two groups and an ungrouped rank
C18_Witness ==
    /\ cpc = "done"
    /\ workers = 2
    /\ \E r \in Ranks : r # 0 /\ ~is_worker(r)
    /\ \E r \in Ranks : color[r] = 2

\* ----------------------------------------------------------------- C19
\* C19: over every sequence of opens, pins and closes on one DataSource, the
\* construction of a stream or pin calls readall exactly when no stream or pin
\* is open at that moment, and no other step calls it; so the calls number the
\* streams constructed while none was open (two for a stream closed before the
\* next is opened), and stay at one while the first stream or pin is open.
C19_Constructs(s) == streams[s].status = "new" /\ streams'[s].status # "new"

C19_Step ==
    /\ \A s \in Streams :
          C19_Constructs(s) =>
              IF \E t \in Streams : streams[t].status = "open"
              THEN readall_calls' = readall_calls
              ELSE readall_calls' = readall_calls + 1
    /\ (\A s \in Streams : ~C19_Constructs(s)) => readall_calls' = readall_calls

C19_ReadallWhenUnreferenced ==
    /\ [](readall_calls = lone_opens)
    /\ [](streams[1].status = "open" => readall_calls = 1)
    /\ [][C19_Step]_vars

\* a stream was closed before a pin was taken, and a stream opened under the
\* pin: two calls of readall for three constructions
C19_Witness ==
    /\ streams[1].status = "closed"
    /\ streams[2].status = "open"
    /\ streams[2].pin
    /\ streams[3].status = "open"
    /\ ~streams[3].pin
    /\ readall_calls = 2

\* ----------------------------------------------------------------- C20
\* C20 as stated: a read that is first advanced on an open stream with a
\* non-empty cache yields one batch and then ends; the batch has one entry per
\* requested column, in request order, the entries of cached columns are the
\* local slices of the cache, the size given to the blending is the local
\* row count of the cache, and parallel_read is not called.
C20_Conclusion ==
    /\ gen.status \in {"suspended", "done"}
    /\ Len(gen.batches) = 1
    /\ gen.parallel_read_calls = 0
    /\ LET cache == heap[gen.cacheref]
           batch == gen.batches[1]
       IN  /\ gen.size = cache.local_size
           /\ Len(batch) = Len(gen.columns)
           /\ \A i \in 1..Len(gen.columns) :
                 gen.columns[i] \in Range(cache.columns) =>
                     /\ batch[i] = cache.attrs[gen.columns[i]]
                     /\ batch[i] = LocalRows(gen.columns[i], 0, datasource.local_rows)
                     /\ Len(batch[i][2]) = cache.local_size

C20_Ends ==
    (gen.mode = "cached" /\ gen.status = "suspended" /\ gen' # gen /\ gen'.status # "none")
        => (gen'.status = "done" /\ gen'.batches = gen.batches)

C20_CachedReadYieldsOneBatch_Original ==
    /\ [](gen.mode = "cached" => C20_Conclusion)
    /\ [][C20_Ends]_vars

\* C20 as amended: the same, for a request whose every column is in the cache
\* or has a default registered on the stream.
C20_Resolvable ==
    \A i \in 1..Len(gen.columns) :
        gen.columns[i] \in Range(heap[gen.cacheref].columns)
                               \cup DOMAIN streams[gen.stream].defaults

C20_CachedReadYieldsOneBatch ==
    /\ []((gen.mode = "cached" /\ C20_Resolvable) => C20_Conclusion)
    /\ [][C20_Ends]_vars

\* a cached read of a default column and a cached column has ended
C20_Witness ==
    /\ gen.mode = "cached"
    /\ gen.status = "done"
    /\ gen.columns = <<"W", "X">>
    /\ Len(gen.batches) = 1
    /\ datasource.local_rows = 1
    /\ datasource.remote_rows = 1

\* ------------------------------------- notions about a read
\* the stream of the generator, and the columns the source provides to it:
\* the columns of the cache in a cached read, the entries of a batch that are
\* not None in a streaming read
ReadStream == streams[gen.stream]

Provided ==
    IF gen.mode = "cached" THEN Range(heap[gen.cacheref].columns)
    ELSE Range(gen.columns) \cap Range(datasource.columns)

\* the requested columns that are filled from the defaults of the stream, and
\* those that cannot be resolved
Defaulted ==
    {i \in 1..Len(gen.columns) :
        gen.columns[i] \notin Provided /\ gen.columns[i] \in DOMAIN ReadStream.defaults}

Unresolved ==
    {i \in 1..Len(gen.columns) :
        gen.columns[i] \notin Provided \cup DOMAIN ReadStream.defaults}

\* ----------------------------------------------------------------- C21
\* C21: in a cached and in a streaming read whose every requested column is
\* provided by the source or has a default, the read raises nothing, and in
\* every batch it yields each requested column that is not provided but has a
\* default is an array of the size of the batch whose every value is the
\* default; also when no requested column is provided by the source.
C21_DefaultsFillBatch ==
    (gen.mode # "" /\ Unresolved = {} /\ Defaulted # {}) =>
        /\ gen.status # "raised"
        /\ \A b \in 1..Len(gen.batches) : \A i \in Defaulted :
              gen.batches[b][i] =
                  Array([k \in 1..gen.size |-> ReadStream.defaults[gen.columns[i]]])

\* ----------------------------------------------------------------- C22
\* C22: a cached or streaming read with a requested column that is neither
\* provided by the source nor has a default raises MissingColumn, the
\* exception names such a column and lists the provided columns united with
\* the defaults, and the read has yielded no batch.
C22_MissingColumnNamed ==
    (gen.mode # "" /\ Unresolved # {}) =>
        /\ gen.status = "raised"
        /\ gen.error = "MissingColumn"
        /\ \E i \in Unresolved : gen.column = gen.columns[i]
        /\ gen.valid_columns = Provided \cup DOMAIN ReadStream.defaults
        /\ gen.batches = <<>>

\* ----------------------------------------------------------------- C23
\* C23: a stream that is closed stays closed, and the first advance of a read
\* on a closed stream raises an error without yielding a batch, whether the
\* cache was empty or not and whatever was read from the stream before.
C23_Step ==
    /\ \A s \in Streams : streams[s].status = "closed" => streams'[s].status = "closed"
    /\ (/\ gen.status = "created"
        /\ closed(streams[gen.stream])
        /\ gen' # gen
        /\ gen'.status # "none")
          => /\ gen'.status = "raised"
             /\ gen'.error = "ValueError"
             /\ gen'.batches = <<>>
             /\ gen'.mode = ""

C23_ReadAfterCloseFails == [][C23_Step]_vars

\* a stream without cache had read all its batches, was closed, and a read
\* called on it afterwards raised at its first advance
C23_Witness ==
    /\ datasource.kind = "NotImplementedError"
    /\ gen.stream = 1
    /\ streams[1].status = "closed"
    /\ streams[1].nread = MaxBatches * MaxRows
    /\ gen.status = "raised"
    /\ gen.error = "ValueError"
    /\ gen.mode = ""
    /\ gen.batches = <<>>

\* ----------------------------------------------------------------- C24
\* C24: no call changes a closed stream (closing it again leaves it as the
\* first close did), and __exit__ leaves the stream closed, with the
\* attributes close() gives it, whatever exception type the block is left
\* with and also when the stream was closed inside the block, in which case
\* nothing changes but the position of the caller.
C24_Closed(st) == st.status = "closed" /\ st.cacheref = 0

C24_Step ==
    \A s \in Streams :
        /\ C24_Closed(streams[s]) =>
              streams'[s] = [streams[s] EXCEPT !.scope = streams'[s].scope,
                                              !.nread = streams'[s].nread]
        /\ (streams[s].scope.status = "in" /\ streams'[s].scope.status = "left") =>
              /\ streams'[s] = [streams[s] EXCEPT !.status = "closed", !.cacheref = 0,
                                                 !.scope = streams'[s].scope]
              /\ closed(streams[s]) => weakcache' = weakcache

C24_CloseIdempotentExitCloses ==
    /\ [](\A s \in Streams : streams[s].scope.status = "left" => C24_Closed(streams[s]))
    /\ [][C24_Step]_vars

\* a stream with a cache was closed inside its `with` block, and the block was
\* left by an exception: the second close left the stream as it was
C24_Witness ==
    /\ datasource.kind = "ok"
    /\ streams[1].scope = [status |-> "left", exc_type |-> "ValueError", was_closed |-> TRUE]
    /\ streams[1].status = "closed"
    /\ streams[1].nread = MaxRows
    /\ streams[2].scope = [status |-> "left", exc_type |-> "", was_closed |-> FALSE]

\* ----------------------------------------------------------------- C25
\* C25: the stored size of a DataSource, once set, never changes; a first
\* assignment stores its value, assigning the stored value again changes
\* nothing and raises nothing, assigning another value raises an error and
\* leaves the stored size, and reading the size while none is stored raises
\* an error, otherwise it returns the stored size.
C25_Step ==
    /\ ds_size # None => ds_size' = ds_size
    /\ size_call' # size_call =>
          LET c == size_call'
          IN  IF c.op = "set"
              THEN /\ ds_size' = IF ds_size = None THEN c.val ELSE ds_size
                   /\ c.error = IF ds_size = None \/ ds_size = c.val
                                THEN "" ELSE "ValueError"
              ELSE /\ ds_size' = ds_size
                   /\ IF ds_size = None THEN c.error = "AttributeError"
                      ELSE c.error = "" /\ c.val = ds_size

C25_SizeIsFirstAssigned == [][C25_Step]_vars

\* the size was assigned by its user before any build, and a later assignment
\* of another value was refused
C25_Witness ==
    /\ readall_calls = 0
    /\ ds_size = <<MaxRows>>
    /\ size_call = [op |-> "set", val |-> <<1>>, error |-> "ValueError"]

\* ------------------------------------- notions about a cache build
\* the collective calls of a call of _cache_data whose readall succeeded with
\* the given columns, in order
CollectiveCalls(columns) ==
    <<<<"bcast", "bcast_success">>, <<"bcast", "bcast_columns">>, <<"bcast", "bcast_size">>>>
        \o [i \in 1..Len(columns) |-> <<"ScatterArray", columns[i]>>]

\* every process has returned from _cache_data
AllBuilt == \A r \in DOMAIN build : build[r].pc = "returned"

\* every process has left _cache_data by an exception
AllRaised == \A r \in DOMAIN build : build[r].pc = "raised"

\* rank r has returned a cache of the data that readall returned
Built(r) == build[r].pc = "returned" /\ build[r].success

\* the rows the first n processes hold in the caches they returned
RECURSIVE SumLocalSizes(_)
SumLocalSizes(n) ==
    IF n = 0 THEN 0 ELSE build[n - 1].ret.local_size + SumLocalSizes(n - 1)

\* ----------------------------------------------------------------- C26
\* C26: when readall raises NotImplementedError on rank 0, no process raises
\* in the cache build, every process that returns from it holds a cache with
\* no columns, local size 0 and total size 0, its size is not set and a read
\* on a stream that holds this cache takes the streaming branch; and every
\* process does return from its builds.
C26_EmptyCache(r) ==
    /\ build[r].error = ""
    /\ build[r].pc # "raised"
    /\ build[r].pc = "returned" =>
          /\ build[r].ret.columns = <<>>
          /\ build[r].ret.local_size = 0
          /\ build[r].ret.total_size = 0
          /\ build[r].stored = None
          /\ read_mode(build[r].ret) = "streaming"

C26_NotSupportedGivesEmptyCache ==
    /\ [](datasource.kind = "NotImplementedError" =>
             \A r \in DOMAIN build : C26_EmptyCache(r))
    /\ <>[](datasource.kind = "NotImplementedError" => AllBuilt)

\* every one of MaxProcs processes has returned from its last build of the
\* cache of a source without readall
C26_Witness ==
    /\ datasource.kind = "NotImplementedError"
    /\ Cardinality(DOMAIN build) = MaxProcs
    /\ \A r \in DOMAIN build : build[r].pc = "returned" /\ build[r].round = MaxBuilds

\* ----------------------------------------------------------------- C27
\* C27: when readall raises another exception than NotImplementedError on
\* rank 0, every process of the communicator leaves the cache build by an
\* exception; none stays in the broadcast of the success flag.
C27_ReadallFailureEndsGroup ==
    (0 \in DOMAIN build /\ build[0].raised_in = "readall") ~> AllRaised

\* ----------------------------------------------------------------- C28
\* C28: when readall returns no columns or columns of unequal lengths, so
\* that _verify_data raises on rank 0, every process of the communicator
\* leaves the cache build by an exception; none stays in the broadcast of the
\* size or in ScatterArray.
C28_VerifyFailureEndsGroup ==
    (0 \in DOMAIN build /\ build[0].raised_in = "_verify_data") ~> AllRaised

\* ----------------------------------------------------------------- C29
\* C29: in a build whose readall succeeded with columns of equal length, the
\* collective calls of every process are, at any time, the first of: the
\* broadcast of the success flag, of the columns, of the size, and one
\* ScatterArray per column in the order of the columns; every process comes
\* to the end of this sequence, and then holds the columns and the size that
\* rank 0 had.
C29_AtEnd(r) == build[r].pc = "returned" \/ build[r].raised_in = "size"

C29_Verified(r) == build[r].success /\ Len(build[0].totals) >= build[r].round

C29_SameCalls(r) ==
    /\ build[r].success =>
          IsPrefix(build[r].calls, CollectiveCalls(datasource.columns))
    /\ (build[r].success /\ C29_AtEnd(r)) =>
          /\ build[r].calls = CollectiveCalls(datasource.columns)
          /\ build[r].columns = datasource.columns
          /\ build[r].size = <<build[0].totals[build[r].round]>>
          /\ build[r].queue = <<>> \/ build[0].round > build[r].round

C29_SameCollectiveSequence ==
    /\ [](\A r \in DOMAIN build : C29_SameCalls(r))
    /\ <>[](\A r \in DOMAIN build : C29_Verified(r) => C29_AtEnd(r))

\* MaxProcs processes have built the cache of two columns MaxBuilds times
C29_Witness ==
    /\ Cardinality(DOMAIN build) = MaxProcs
    /\ datasource.columns = <<"X", "Y">>
    /\ \A r \in DOMAIN build :
          /\ Built(r)
          /\ build[r].round = MaxBuilds
          /\ Len(build[r].calls) = 5

\* ----------------------------------------------------------------- C30
\* C30: a process that has returned a cache of the data of readall has the
\* verified total as its size and as the total size of the cache; when all
\* processes have returned the caches of the same build, their local sizes
\* sum to the total; a size that is set stays as it is in every step, also
\* when the next build begins, and a build that ends with another total
\* raises the ValueError of the size setter.
C30_Sizes(r) ==
    Built(r) =>
        LET total == build[0].totals[build[r].round]
        IN  /\ build[r].stored = <<total>>
            /\ build[r].ret.total_size = total
            /\ build[r].ret.local_size = len(build[r].ret.attrs[build[r].columns[1]])

C30_Sum ==
    (\A r \in DOMAIN build : Built(r) /\ build[r].round = build[0].round) =>
        SumLocalSizes(Cardinality(DOMAIN build)) = build[0].totals[build[0].round]

C30_Step ==
    \A r \in DOMAIN build :
        /\ build[r].stored # None => build'[r].stored = build[r].stored
        /\ (build[r].pc = "finish" /\ build'[r].pc # "finish") =>
              IF build[r].stored \in {None, build[r].size}
              THEN Built(r)' /\ build'[r].stored = build[r].size
              ELSE /\ build'[r].pc = "raised"
                   /\ build'[r].error = "ValueError"
                   /\ build'[r].raised_in = "size"

C30_SizeIsVerifiedTotal ==
    /\ [](\A r \in DOMAIN build : C30_Sizes(r))
    /\ []C30_Sum
    /\ [][C30_Step]_vars

\* MaxProcs processes have built the cache of MaxRows rows once more, the size
\* kept since the first build
C30_Witness ==
    /\ Cardinality(DOMAIN build) = MaxProcs
    /\ build[0].totals = [k \in 1..MaxBuilds |-> MaxRows]
    /\ \A r \in DOMAIN build :
          /\ Built(r)
          /\ build[r].round = MaxBuilds
          /\ build[r].stored = <<MaxRows>>

\* ----------------------------------------------------------------- C39
\* C39: on R >= 2 ranks with a group size g >= 1, as soon as a group has been
\* yielded the number of groups yielded so far, and so the number of workers
\* W, is at most R-1: the check `size <= workers` is false whenever it is
\* evaluated and the construction never ends with its ValueError.
C39_WorkersBelowRanks ==
    (size >= 2 /\ cpus_per_worker >= 1 /\ Len(yielded) >= 1) =>
        /\ Len(yielded) <= size - 1
        /\ ~too_few_ranks(size, Len(yielded))
        /\ cpc \in {"split", "done"} =>
              (workers <= size - 1 /\ ~too_few_ranks(size, workers))
        /\ ~(cpc = "failed" /\ error = "ValueError")

\* groups of one rank on the largest communicator: W = R-1, the check of
\* size against workers was passed and the communicator was split
C39_Witness ==
    /\ size = MaxNRanks
    /\ cpus_per_worker = 1
    /\ cpc = "done"
    /\ workers = size - 1
    /\ error = ""

\* ----------------------------------------------------------------- C38
\* C38: the call of read raises nothing and runs none of the body, whether or
\* not the stream is closed; closing the stream leaves a generator as it is;
\* the first advance of a generator raises the closed-stream error exactly
\* when the stream is closed at that moment, also when read was called while
\* it was open; and a streaming generator that has yielded a batch yields
\* its next batches, and ends after the last, whether or not the stream has
\* been closed since.
C38_Step ==
    /\ (gen.status = "none" /\ gen'.status # "none") =>
          /\ gen'.status = "created"
          /\ gen'.error = ""
          /\ gen'.batches = <<>>
          /\ streams' = streams
    /\ (gen.status # "none" /\ ~closed(streams[gen.stream])
           /\ closed(streams'[gen.stream])) => gen' = gen
    /\ (gen.status = "created" /\ gen' # gen /\ gen'.status # "none") =>
          (closed(streams[gen.stream])
              <=> (/\ gen'.status = "raised"
                   /\ gen'.error = "ValueError"
                   /\ gen'.mode = ""
                   /\ gen'.batches = <<>>))
    /\ (/\ gen.status = "suspended"
        /\ gen.mode = "streaming"
        /\ gen' # gen
        /\ gen'.status # "none") =>
          IF gen.taken < datasource.nbatches
          THEN /\ gen'.status = "suspended"
               /\ gen'.taken = gen.taken + 1
               /\ Len(gen'.batches) = Len(gen.batches) + 1
               /\ SubSeq(gen'.batches, 1, Len(gen.batches)) = gen.batches
          ELSE /\ gen'.status = "done"
               /\ gen'.batches = gen.batches

C38_LateFirstAdvance ==
    /\ gen.stream = 1
    /\ streams[1].scope = [status |-> "left", exc_type |-> "", was_closed |-> FALSE]
    /\ gen.called_in = "in"
    /\ gen.advanced_in = "left"
    /\ gen.status = "raised"
    /\ gen.error = "ValueError"
    /\ gen.mode = ""

\* ----------------------------------------------- notions about a run
\* the START messages the master has sent to r
StartsTo(r) == Len(SelectSeq(master_sent[r], IsStartMsg))

\* the DONE messages r has sent, and those of them the master has received
DonesSent(r) == Len(SelectSeq(sent[r], IsDoneMsg))
DonesReceived(r) == Len(SelectSeq(Received(r), IsDoneMsg))

\* the dispatch loop of the master has ended
LoopEnded == ~(closed_workers < workers)

\* ----------------------------------------------------------------- C35
\* C35: the master has sent a group at most one START more than the group
\* has sent DONEs, and at most one more than the DONEs of the group it has
\* received; the tasks sent and not yet recorded as done are never more
\* than the groups, and results recorded <= tasks sent <= tasks.
C35_OneTaskPerGroup ==
    /\ \A r \in Ranks :
          /\ DonesReceived(r) <= DonesSent(r)
          /\ DonesSent(r) <= StartsTo(r)
          /\ StartsTo(r) <= DonesReceived(r) + 1
    /\ NumStarted = task_index
    /\ NumStarted - Len(results) <= workers
    /\ Len(results) <= NumStarted
    /\ NumStarted <= Len(tasks)

\* both groups hold a task and the master has no result yet
C35_Witness ==
    /\ workers = MaxWorkers
    /\ NumStarted = workers
    /\ results = <<>>
    /\ \A c \in LocalCoordinators : StartsTo(c) = 1 /\ DonesSent(c) = 0

\* ----------------------------------------------------------------- C36
\* C36: the EXIT of a group is the last message it sends, so once the
\* master has received a group's EXIT it has received all its DONEs, one
\* for every START it sent the group; when the dispatch loop has ended no
\* message is undelivered and the master has recorded one result for every
\* task it sent.
C36_DoneBeforeExit ==
    /\ \A r \in Ranks :
          /\ \A k \in 1..Len(sent[r]) : IsExitMsg(sent[r][k]) => k = Len(sent[r])
          /\ ExitsReceived(r) = 1 =>
                /\ inbox[r] = <<>>
                /\ DonesReceived(r) = DonesSent(r)
                /\ DonesReceived(r) = StartsTo(r)
    /\ LoopEnded =>
          /\ \A r \in Ranks : inbox[r] = <<>>
          /\ Len(results) = NumStarted
          /\ Len(results) = task_index

\* the loop has ended after a group reported two tasks and then its EXIT,
\* while the other group ran none
C36_Witness ==
    /\ LoopEnded
    /\ workers = 2
    /\ Len(results) = 2
    /\ \E c \in LocalCoordinators :
          /\ DonesReceived(c) = 2
          /\ ExitsReceived(c) = 1
          /\ IsExitMsg(sent[c][Len(sent[c])])

\* ----------------------------------------------------------------- C37
\* C37: with fewer tasks than groups, a group whose first message from the
\* master is EXIT gets no other message and none of its members ever runs
\* the task function; there are at least W-N such groups once every group
\* was answered; compute returns only after the EXIT of all W groups, and it
\* does return, with one result per task (the empty list when there is no
\* task).
C37_NeverStarted(c) == master_sent[c] # <<>> /\ IsExitMsg(master_sent[c][1])

C37_State ==
    Len(tasks) < workers =>
        LET gs == Groups
            coords == CoordinatorsOf(gs)
        IN  /\ \A c \in coords : C37_NeverStarted(c) =>
                  /\ master_sent[c] = <<Msg(tags.EXIT, None)>>
                  /\ NumStarted = Len(tasks)
                  /\ \A q \in MembersOf(gs, c) :
                        /\ pc[q] # "exec"
                        /\ result[q] = None
                        /\ \A k \in 1..Len(seen[q]) : seen[q][k][2] # tags.START
            /\ (\A c \in coords : master_sent[c] # <<>>) =>
                  Cardinality({c \in coords : C37_NeverStarted(c)}) >= workers - Len(tasks)
            /\ pc[0] = "returned" =>
                  /\ closed_workers = workers
                  /\ \A c \in coords : ExitsReceived(c) = 1
                  /\ Len(returned) = Len(tasks)
                  /\ Len(tasks) = 0 => returned = <<>>

C37_FewerTasksThanGroups ==
    /\ []C37_State
    /\ (Len(tasks) < workers) => <>(pc[0] = "returned" /\ Len(returned) = Len(tasks))

\* one task and two groups: compute returned the one result after the EXIT
\* of both groups, one of which never ran the task function
C37_Witness ==
    /\ Len(tasks) = 1
    /\ workers = 2
    /\ pc[0] = "returned"
    /\ Len(returned) = 1
    /\ closed_workers = 2
    /\ \E c \in LocalCoordinators :
          /\ C37_NeverStarted(c)
          /\ ExitsReceived(c) = 1
          /\ \A q \in MembersOf(Groups, c) : result[q] = None /\ pc[q] = "returned"

\* no task and two groups: compute returned the empty list
C37_NoTask ==
    /\ tasks = <<>>
    /\ workers = 2
    /\ pc[0] = "returned"
    /\ returned = <<>>
    /\ closed_workers = 2

\* ----------------------------------------------------------------- C31
\* C31: no step changes a cache object that exists (its columns, local
\* slices, local size and total size stay as they were built), and a stream
\* holds the same cache object as long as it is open; the cache of the
\* DataSource changes only by losing its entry when no open stream refers
\* to it any more, and by a new build, which happens only when there is no
\* entry and no open stream or pin refers to any cache.
C31_Step ==
    /\ Len(heap') >= Len(heap)
    /\ \A k \in 1..Len(heap) : heap'[k] = heap[k]
    /\ \A s \in Streams :
          (streams[s].status = "open" /\ streams'[s].status = "open") =>
              streams'[s].cacheref = streams[s].cacheref
    /\ weakcache' # weakcache =>
          IF weakcache # 0
          THEN /\ weakcache' = 0
               /\ weakcache \notin Referenced(streams')
               /\ heap' = heap
          ELSE /\ Referenced(streams) = {}
               /\ heap' = Append(heap, heap'[Len(heap')])
               /\ weakcache' = Len(heap')
    /\ heap' # heap => (weakcache = 0 /\ weakcache' = Len(heap'))

C31_CacheNeverMutated ==
    /\ [](weakcache # 0 => weakcache \in Referenced(streams))
    /\ [][C31_Step]_vars

\* the first cache was read through a stream while a pin held it; after
\* both were closed a second cache was built, and the first is as it was
C31_Witness ==
    /\ datasource.kind = "ok"
    /\ Len(heap) = 2
    /\ weakcache = 2
    /\ streams[1].status = "closed"
    /\ streams[1].pin
    /\ streams[2].status = "open"
    /\ gen.stream = 2
    /\ gen.status = "done"
    /\ gen.cacheref = 2
    /\ heap[1] = cache_data(datasource, None).cache

\* ----------------------------------------------------------------- C33
\* C33: once close() has run on every rank of a constructed pool, every
\* member of every worker group has freed the sub-communicator of its
\* group.
C33_WorkerSubcommsFreed ==
    (cpc = "done" /\ shutdown.closed = Ranks) =>
        \A r \in Ranks : color[r] > 0 => r \in shutdown.freed

\* -------------------------------------------- notions about a group read
\* the rows of the first k batches, over all processes
RECURSIVE RowsOfBatches(_)
RowsOfBatches(k) ==
    IF k = 0 THEN 0
    ELSE RowsOfBatches(k - 1)
         + allreduce_upto(Cardinality(DOMAIN sread) - 1,
                          [q \in DOMAIN sread |-> BatchRows(q, k)])

\* parallel_read yields the same number of batches on every process
EqualBatches == \A r \in DOMAIN sread : sread[r].nbatches = sread[0].nbatches

\* the generator of every process is exhausted
AllRead == \A r \in DOMAIN sread : sread[r].pc = "done"

\* ----------------------------------------------------------------- C32
\* C32: in a streaming read nread is 0 from the first advance until the
\* first batch is yielded; whenever a process has been yielded its k-th
\* batch it has called allreduce exactly k times, once per batch with the
\* rows of that batch, and its nread is the number of rows of the first k
\* batches summed over all processes; every process exhausts its generator
\* if and only if parallel_read yields the same number of batches on every
\* process, otherwise some process stays in allreduce for ever.  A stream
\* opened on a non-empty cache has nread = total_size, also after its read.
C32_State ==
    \A r \in DOMAIN sread :
        LET g == sread[r]
        IN  /\ (g.pc = "created" /\ ~empty(g.cache)) => g.nread = g.cache.total_size
            /\ g.mode = "cached" =>
                  (g.nread = g.cache.total_size /\ g.reduced = <<>>)
            /\ g.mode = "streaming" =>
                  /\ Len(g.reduced) = IF g.pc = "allreduce" THEN g.taken - 1 ELSE g.taken
                  /\ \A b \in 1..Len(g.reduced) : g.reduced[b] = BatchRows(r, b)
                  /\ g.nread = RowsOfBatches(Len(g.reduced))
                  /\ g.pc = "done" => g.taken = g.nbatches

C32_Blocked ==
    /\ DOMAIN sread = Procs(MaxProcs)
    /\ sread[0].pc = "allreduce"
    /\ \A r \in DOMAIN sread \ {0} : sread[r].pc = "done" /\ sread[r].mode = "streaming"

\* ------------------------------------------ notions about a group's use
\* the streams open after the first i operations of the program
RECURSIVE OpenAfter(_)
OpenAfter(i) ==
    IF i = 0 THEN {}
    ELSE IF group.program[i].op = "close" THEN OpenAfter(i - 1) \ {group.program[i].h}
    ELSE OpenAfter(i - 1) \cup {group.program[i].h}

\* the operations, among the first i, that construct a stream while none is open
LoneOpens(i) ==
    {k \in 1..i : group.program[k].op # "close" /\ OpenAfter(k - 1) = {}}

\* the operations process r has begun
Begun(r) == group.procs[r].ip + (IF group.procs[r].pc = "build" THEN 1 ELSE 0)

\* process r is inside _cache_data, waiting for a call rank 0 has not made
Blocked(r) ==
    /\ r # 0
    /\ group.procs[r].pc = "build"
    /\ group.procs[0].builds < group.procs[r].builds

\* every process has performed every operation
AllPerformed ==
    \A r \in DOMAIN group.procs :
        group.procs[r].pc = "run" /\ group.procs[r].ip = Len(group.program)

\* ----------------------------------------------------------------- C34
\* C34: when every process performs the same operations, a process builds
\* the cache exactly at the operations that construct a stream while it has
\* no stream open, so at every open all processes build or none does and
\* the k-th build of every process belongs to the same open; the processes
\* that wait in a build for rank 0 all wait in the same build, the one rank
\* 0 makes next; and every process performs all its operations, none stays
\* blocked in a build.
C34_State ==
    /\ \A r \in DOMAIN group.procs :
          LET g == group.procs[r]
          IN  /\ Range(g.built_at) = LoneOpens(Begun(r))
              /\ Len(g.built_at) = g.builds
              /\ Cardinality(LoneOpens(Begun(r))) = g.builds
              /\ (g.entry # 0) = (g.open # {})
              /\ g.pc = "run" => g.open = OpenAfter(g.ip)
    /\ \A r \in DOMAIN group.procs : \A q \in DOMAIN group.procs :
          \A k \in 1..Min(group.procs[r].builds, group.procs[q].builds) :
              group.procs[r].built_at[k] = group.procs[q].built_at[k]
    /\ \A r \in DOMAIN group.procs :
          Blocked(r) => group.procs[r].builds = group.procs[0].builds + 1

C34_Shared ==
    /\ DOMAIN group.procs = Procs(MaxProcs)
    /\ Len(group.program) >= 2
    /\ group.program[1].op = "pin"
    /\ group.program[2].op = "open"
    /\ \A r \in DOMAIN group.procs :
          /\ group.procs[r].ip = 2
          /\ group.procs[r].built_at = <<1>>
          /\ group.procs[r].open = {1, 2}

\* a process waits in its first build for rank 0, which has not begun
C34_Waiting ==
    /\ 1 \in DOMAIN group.procs
    /\ Blocked(1)
    /\ group.procs[0].ip = 0
    /\ group.procs[1].builds = 1

====
